---------------------------- MODULE Spec2Model ----------------------------
(***************************************************************************)
(* A model of the jung tree-walking interpreter (C99): the value system,   *)
(* the hash-table backed scopes and objects, and the evaluator's scope,    *)
(* call, class-dispatch and setjmp/longjmp exception machinery.            *)
(*                                                                         *)
(* The program being interpreted is the model's input: each action         *)
(* executes one statement (or enters / leaves one block) chosen from a     *)
(* small set, so a behaviour of a specification is the execution of one    *)
(* program.  The C call stack of exec_stmt / call_function activations is  *)
(* the variable cstack; a jmp_buf is the index of the frame that called    *)
(* setjmp.                                                                 *)
(***************************************************************************)
EXTENDS Integers, Sequences, FiniteSets, TLC

VARIABLES
    scopes,            \* it->scopes[0 .. scope_depth], each a Table
    globals,           \* it->globals
    functions,         \* it->functions : name -> FuncDef
    classes,           \* it->classes   : name -> method table
    heap,              \* malloc'ed object Tables, by address
    this_obj,          \* it->this_obj  : 0 (NULL) or the frame holding the receiver
    call_depth,        \* it->call_depth
    try_stack,         \* it->try_stack[0 .. try_depth-1]
    imported,          \* it->imported[0 .. imported_count-1]
    break_flag,        \* it->break_flag
    continue_flag,     \* it->continue_flag
    return_flag,       \* it->return_flag
    return_value,      \* it->return_value
    exception_msg,     \* it->exception_msg (Null is the NULL pointer)
    exception_active,  \* it->exception_active
    cstack,            \* active exec_stmt / call_function frames, outermost first
    status,            \* "run", "exit" (process ended) or "hang" (never returns)
    exit_code,         \* process exit status once status = "exit"
    err_stream,        \* what was written to stderr
    out,               \* what the statement in progress wrote to stdout
    last               \* the last step: its statement (the input), and whether it raised

vars == <<scopes, globals, functions, classes, heap, this_obj, call_depth,
          try_stack, imported, break_flag, continue_flag, return_flag, return_value,
          exception_msg, exception_active, cstack, status, exit_code,
          err_stream, out, last>>

(***************************************************************************)
(* Program constants.                                                      *)
(***************************************************************************)
MAX_CALL_DEPTH == 200
MAX_SCOPES == 256
MAX_TRY_DEPTH == 32
MAX_IMPORTED == 64

(***************************************************************************)
(* Bounds of the model.                                                    *)
(***************************************************************************)
MaxStack == 3
MaxCatchRuns == 2
MaxObjects == 2

MaxValue == 2

\* The width of a C long in bits, scaled down from 64.
LongBits == 12

\* The NULL pointer, for exception_msg and this_obj.
Null == [null |-> TRUE]

\* A non-NULL char *.
Msg(s) == [null |-> FALSE, s |-> s]

\* A NULL name (no catch variable).
NoName == ""

(***************************************************************************)
(* Values (struct Value).  Numbers are integer-valued doubles here.        *)
(***************************************************************************)
RECURSIVE Pow2(_)
Pow2(k) == IF k = 0 THEN 1 ELSE 2 * Pow2(k - 1)

val_null == [type |-> "null"]

val_bool(b) == [type |-> "bool", b |-> b]

val_number(n) == [type |-> "number", n |-> n]

\* val_number of the double num / den (den > 0).  A double that is no
\* integer is kept as that fraction in lowest terms, with den > 1.
val_double(num, den) ==
    LET RECURSIVE gcd(_, _)
        gcd(a, b) == IF b = 0 THEN a ELSE gcd(b, a % b)
        g == gcd(IF num < 0 THEN 0 - num ELSE num, den)
    IN  IF num % den = 0 THEN val_number(num \div den)
        ELSE [type |-> "number", num |-> num \div g, den |-> den \div g]

\* n == floor(n)
is_integral(v) == "n" \in DOMAIN v

val_string(s) == [type |-> "string", s |-> s]

val_array(items) == [type |-> "array", items |-> items]

val_func(f) == [type |-> "function", f |-> f]

val_builtin(f) == [type |-> "builtin", bi |-> f]

\* A handle on the Table at address ref.
obj_handle(ref) == [type |-> "object", ref |-> ref]

EmptyTable == [k \in {} |-> val_null]

\* table_init: a fresh Table starts with refcount 1.
table_init == [refcount |-> 1, entries |-> EmptyTable, freed |-> FALSE]

table_has(t, key) == key \in DOMAIN t

table_get(t, key) == t[key]

\* table_set on the entries of a Table (the caller frees the old value).
table_put(t, key, val) == [k \in (DOMAIN t) \cup {key} |-> IF k = key THEN val ELSE t[k]]

RECURSIVE xor(_, _)
\* a ^ b
xor(a, b) ==
    IF a = 0 THEN b ELSE IF b = 0 THEN a
    ELSE 2 * xor(a \div 2, b \div 2) + (IF a % 2 = b % 2 THEN 0 ELSE 1)

INITIAL_CAP == 16

\* hash_string of a key of one letter: FNV-1a on 32 bits, kept as two
\* halves of 16 bits.  The offset basis 2166136261 is 33052 * 2^16 + 40389
\* and the prime 16777619 is 2^24 + 403.
hash_string(key) ==
    LET code == ("a" :> 97) @@ ("b" :> 98) @@ ("c" :> 99) @@ ("d" :> 100) @@ ("e" :> 101)
                @@ ("f" :> 102) @@ ("g" :> 103) @@ ("h" :> 104) @@ ("k" :> 107)
                @@ ("m" :> 109) @@ ("v" :> 118) @@ ("x" :> 120)
        lo == xor(40389, code[key])
    IN  [hi |-> (33052 * 403 + (lo * 403) \div 65536 + (lo % 256) * 256) % 65536,
         lo |-> (lo * 403) % 65536]

RECURSIVE table_keys(_, _)
\* table_keys from the chain i on: the keys chain by chain.  The Table has
\* INITIAL_CAP chains (it grows at its thirteenth key only); the keys of
\* one chain come last set first, which the entries do not tell, so they
\* come in some order (no two of the letters a to o share a chain).
table_keys(t, i) ==
    LET chain == {k \in DOMAIN t :
                    (hash_string(k).hi * (65536 % INITIAL_CAP) + hash_string(k).lo)
                       % INITIAL_CAP = i}
    IN  IF i >= INITIAL_CAP THEN <<>>
        ELSE (CHOOSE keys \in [1..Cardinality(chain) -> chain] :
                 \A k \in chain : \E j \in DOMAIN keys : keys[j] = k)
             \o table_keys(t, i + 1)

val_is_truthy(v) ==
    CASE v.type = "null" -> FALSE
      [] v.type = "bool" -> v.b
      [] v.type = "number" -> ~is_integral(v) \/ v.n # 0
      [] v.type = "string" -> Len(v.s) > 0
      [] v.type = "array" -> Len(v.items) > 0
      [] OTHER -> TRUE

Digit(d) ==
    CASE d = 0 -> "0" [] d = 1 -> "1" [] d = 2 -> "2" [] d = 3 -> "3"
      [] d = 4 -> "4" [] d = 5 -> "5" [] d = 6 -> "6" [] d = 7 -> "7"
      [] d = 8 -> "8" [] OTHER -> "9"

RECURSIVE FormatLong(_)
\* snprintf("%ld") of an integer.
FormatLong(n) ==
    IF n < 0 THEN "-" \o FormatLong(0 - n)
    ELSE IF n < 10 THEN Digit(n)
    ELSE FormatLong(n \div 10) \o Digit(n % 10)

\* snprintf("%g") of the double a / den > 0 that is no integer, in the
\* fixed notation %g uses from 1e-4 up to 1e6: six significant digits,
\* trailing zeros dropped.
format_g(a, den) ==
    LET RECURSIVE zeros(_)
        RECURSIVE digits(_, _, _)
        RECURSIVE pow10(_)
        \* the zeros between the point and the first significant digit
        zeros(x) == IF x >= den THEN 0 ELSE IF x * 10 >= den THEN 0 ELSE 1 + zeros(x * 10)
        pow10(k) == IF k = 0 THEN 1 ELSE 10 * pow10(k - 1)
        \* the f-digit fraction r, without its trailing zeros
        digits(r, f, strip) ==
            IF f = 0 THEN ""
            ELSE IF strip /\ r % 10 = 0 THEN digits(r \div 10, f - 1, TRUE)
            ELSE digits(r \div 10, f - 1, FALSE) \o Digit(r % 10)
        f == IF a >= den THEN 6 - Len(FormatLong(a \div den)) ELSE 6 + zeros(a)
        scaled == (2 * a * pow10(f) + den) \div (2 * den)
    IN  FormatLong(scaled \div pow10(f))
          \o (IF scaled % pow10(f) = 0 THEN "" ELSE "." \o digits(scaled % pow10(f), f, TRUE))

RECURSIVE val_to_string(_)
RECURSIVE JoinItems(_, _)
\* The elements of an array rendering: strings quoted, ", " between items.
JoinItems(items, i) ==
    IF i > Len(items) THEN ""
    ELSE (IF i > 1 THEN ", " ELSE "")
         \o (IF items[i].type = "string"
             THEN "\"" \o val_to_string(items[i]) \o "\""
             ELSE val_to_string(items[i]))
         \o JoinItems(items, i + 1)

val_to_string(v) ==
    CASE v.type = "null" -> "null"
      [] v.type = "bool" -> (IF v.b THEN "true" ELSE "false")
      [] v.type = "number" ->
           \* %ld of an integer (one of at most 1e15 here), %g of any other
           IF is_integral(v) THEN FormatLong(v.n)
           ELSE IF v.num < 0 THEN "-" \o format_g(0 - v.num, v.den)
           ELSE format_g(v.num, v.den)
      [] v.type = "string" -> v.s
      [] v.type = "array" -> "[" \o JoinItems(v.items, 1) \o "]"
      [] v.type = "function" -> "<fn " \o v.f.name \o ">"
      [] v.type = "builtin" -> "<builtin>"


(***************************************************************************)
(* The heap of object Tables.  An address is an index of heap; a freed     *)
(* Table keeps its slot (freed = TRUE) and its address is never reused.    *)
(***************************************************************************)
RECURSIVE copy_refs(_, _, _)
\* The heap after val_copy(v): an object handle bumps its Table's refcount,
\* an array copies each of its items (a new backing store).
copy_refs(v, h, i) ==
    IF v.type = "object"
    THEN [h EXCEPT ![v.ref].refcount = @ + 1]
    ELSE IF v.type = "array" /\ i <= Len(v.items)
    THEN copy_refs(v, copy_refs(v.items[i], h, 1), i + 1)
    ELSE h

\* val_copy giving an object a Table of its own, with the same entries.
val_copy_clone(v, h) ==
    IF v.type = "object"
    THEN [v |-> [type |-> "object", ref |-> Len(h) + 1],
          heap |-> Append(h, [h[v.ref] EXCEPT !.refcount = 1])]
    ELSE [v |-> v, heap |-> h]

\* val_copy: the copy and the heap after it.  Strings and arrays get their
\* own storage (equal contents), objects share the Table.
val_copy(v, h) == [v |-> v, heap |-> copy_refs(v, h, 1)]

RECURSIVE val_free(_, _)
RECURSIVE free_all(_, _, _)
\* val_free of every value of a Table's entries (table_free).
free_all(t, keys, h) ==
    IF keys = {} THEN h
    ELSE LET k == CHOOSE x \in keys : TRUE
         IN  free_all(t, keys \ {k}, val_free(t[k], h))

RECURSIVE free_items(_, _, _)
free_items(items, i, h) ==
    IF i > Len(items) THEN h
    ELSE free_items(items, i + 1, val_free(items[i], h))

\* The heap after val_free(&v).
val_free(v, h) ==
    IF v.type = "object"
    THEN LET h1 == [h EXCEPT ![v.ref].refcount = @ - 1]
         IN  IF h1[v.ref].refcount <= 0
             THEN [free_all(h1[v.ref].entries, DOMAIN h1[v.ref].entries, h1)
                      EXCEPT ![v.ref].freed = TRUE, ![v.ref].entries = EmptyTable]
             ELSE h1
    ELSE IF v.type = "array" THEN free_items(v.items, 1, h)
    ELSE h

\* table_free of a scope or registry Table held by value.
table_free(t, h) == free_all(t, DOMAIN t, h)

(***************************************************************************)
(* The interpreter state as one record, so that the C functions below are  *)
(* operators from a state to the state they leave.  jumped is set when the *)
(* function did not return to its caller: a longjmp landed in a catch      *)
(* branch, or the process ended.                                           *)
(***************************************************************************)
Machine ==
    [scopes |-> scopes, globals |-> globals, functions |-> functions,
     classes |-> classes, heap |-> heap, this_obj |-> this_obj,
     call_depth |-> call_depth, try_stack |-> try_stack, imported |-> imported,
     break_flag |-> break_flag, continue_flag |-> continue_flag,
     return_flag |-> return_flag, return_value |-> return_value,
     exception_msg |-> exception_msg, exception_active |-> exception_active,
     cstack |-> cstack, status |-> status, exit_code |-> exit_code,
     err_stream |-> err_stream, out |-> <<>>, jumped |-> FALSE, stale |-> "intact",
     released |-> <<>>, stale_read |-> FALSE]

Commit(m) ==
    /\ scopes' = m.scopes
    /\ globals' = m.globals
    /\ functions' = m.functions
    /\ classes' = m.classes
    /\ heap' = m.heap
    /\ this_obj' = m.this_obj
    /\ call_depth' = m.call_depth
    /\ try_stack' = m.try_stack
    /\ imported' = m.imported
    /\ break_flag' = m.break_flag
    /\ continue_flag' = m.continue_flag
    /\ return_flag' = m.return_flag
    /\ return_value' = m.return_value
    /\ exception_msg' = m.exception_msg
    /\ exception_active' = m.exception_active
    /\ cstack' = m.cstack
    /\ status' = m.status
    /\ exit_code' = m.exit_code
    /\ err_stream' = m.err_stream
    /\ out' = m.out

\* C sequencing: K runs on what the call before it left, unless that call
\* did not return (jumped).  Then is for calls that return a state, Bind
\* for calls that return a state and a value; With names a result.
Then(m, K(_)) == IF m.jumped THEN m ELSE K(m)

Bind(r, K(_)) == IF r.m.jumped THEN r ELSE K(r)

\* The same inside a statement, which returns a state only.
Do(r, K(_)) == IF r.m.jumped THEN r.m ELSE K(r)

With(x, K(_)) == K(x)

scope_depth(m) == Len(m.scopes) - 1

try_depth(m) == Len(m.try_stack)

\* exit(code) after a line on stderr.
die(m, text, code) ==
    [m EXCEPT !.err_stream = Append(@, text), !.status = "exit",
              !.exit_code = code, !.jumped = TRUE]

pop_scope(m) ==
    IF scope_depth(m) < 0 THEN m
    ELSE [m EXCEPT !.heap = table_free(m.scopes[Len(m.scopes)], @),
                   !.scopes = SubSeq(@, 1, Len(@) - 1)]

\* An `if` in place of the `while`: one scope is popped at most.
unwind_scopes_once(m, saved_scope) ==
    IF scope_depth(m) > saved_scope THEN pop_scope(m) ELSE m

RECURSIVE unwind_scopes(_, _)
\* while (it->scope_depth > saved_scope) pop_scope(it);
unwind_scopes(m, saved_scope) ==
    IF scope_depth(m) > saved_scope
    THEN unwind_scopes(pop_scope(m), saved_scope)
    ELSE m

\* table_set on scope i (1-based) of the scope stack.
scope_set(m, i, name, val) ==
    [m EXCEPT !.scopes[i] = table_put(@, name, val),
              !.heap = IF table_has(m.scopes[i], name)
                       THEN val_free(m.scopes[i][name], @) ELSE @,
              !.released = IF table_has(m.scopes[i], name)
                           THEN Append(@, <<i, name>>) ELSE @]

interp_def_var(m, name, val) == scope_set(m, Len(m.scopes), name, val)

\* The start of the catch branch once the scopes are unwound: the flags
\* are cleared, push_scope, the catch variable is bound to the message.
catch_bind(m, f) ==
    IF scope_depth(m) >= MAX_SCOPES - 1
    THEN \* push_scope raises "scope overflow", which longjmps to this
         \* same jmp_buf again: the handler never gets to its body
         [m EXCEPT !.status = "hang", !.exception_msg = Msg("scope overflow")]
    ELSE IF f.catch_var # NoName /\ ~m.exception_msg.null
    THEN interp_def_var([m EXCEPT !.scopes = Append(@, EmptyTable)],
                        f.catch_var, val_string(m.exception_msg.s))
    ELSE [m EXCEPT !.scopes = Append(@, EmptyTable)]

\* The setjmp(...) != 0 branch of NODE_TRY_CATCH, entered by longjmp to the
\* jmp_buf of frame target, up to the start of the catch body.  Frames
\* above target are abandoned.  runs counts the entries of this catch body.
catch_branch(m, target) ==
    catch_bind([unwind_scopes(m, m.cstack[target].saved_scope) EXCEPT
                  !.cstack = Append(SubSeq(m.cstack, 1, target - 1),
                                    [m.cstack[target] EXCEPT
                                       !.phase = "catch",
                                       !.runs = IF @ < MaxCatchRuns THEN @ + 1 ELSE @]),
                  !.exception_active = FALSE,
                  !.return_flag = FALSE,
                  !.break_flag = FALSE,
                  !.continue_flag = FALSE,
                  !.jumped = TRUE],
               m.cstack[target])

throw_exception(m, msg) ==
    IF try_depth(m) > 0
    THEN catch_branch([m EXCEPT !.exception_msg = Msg(msg), !.exception_active = TRUE],
                      m.try_stack[try_depth(m)])
    ELSE die([m EXCEPT !.exception_msg = Msg(msg), !.exception_active = TRUE],
             "Uncaught exception: " \o msg, 1)

runtime_error(m, line, buf) ==
    IF try_depth(m) > 0
    THEN throw_exception(m, IF line > 0
                            THEN "[line " \o FormatLong(line) \o "] " \o buf
                            ELSE buf)
    ELSE die(m, "jit runtime error"
                \o (IF line > 0 THEN " [line " \o FormatLong(line) \o "]" ELSE "")
                \o ": " \o buf, 1)

push_scope(m) ==
    IF scope_depth(m) >= MAX_SCOPES - 1
    THEN runtime_error(m, 0, "scope overflow")
    ELSE [m EXCEPT !.scopes = Append(@, EmptyTable)]

\* The index (1-based) of the innermost scope defining name, 0 when none.
find_scope(m, name) ==
    LET hits == {i \in 1..Len(m.scopes) : table_has(m.scopes[i], name)}
    IN  IF hits = {} THEN 0 ELSE CHOOSE i \in hits : \A j \in hits : j <= i

interp_get_var(m, name) ==
    IF find_scope(m, name) > 0
    THEN [found |-> TRUE, v |-> table_get(m.scopes[find_scope(m, name)], name)]
    ELSE IF table_has(m.globals, name)
    THEN [found |-> TRUE, v |-> table_get(m.globals, name)]
    ELSE [found |-> FALSE, v |-> val_null]

\* interp_set_var searching the scopes from the outermost inward.
interp_set_var_outermost(m, name, val) ==
    IF find_scope(m, name) > 0
    THEN scope_set(m, CHOOSE i \in 1..Len(m.scopes) :
                        /\ table_has(m.scopes[i], name)
                        /\ \A j \in 1..(i - 1) : ~table_has(m.scopes[j], name),
                   name, val)
    ELSE scope_set(m, Len(m.scopes), name, val)

interp_set_var(m, name, val) ==
    IF find_scope(m, name) > 0
    THEN scope_set(m, find_scope(m, name), name, val)
    ELSE IF table_has(m.globals, name)
    THEN [m EXCEPT !.globals = table_put(@, name, val),
                   !.heap = val_free(m.globals[name], @),
                   !.released = Append(@, <<0, name>>)]
    ELSE scope_set(m, Len(m.scopes), name, val)

(***************************************************************************)
(* Expressions.  An AST node is a record [type, line, ...] with the fields *)
(* of its variant of struct ASTNode.  eval_node returns the state it       *)
(* leaves and the value; when the state says jumped there is no value and  *)
(* every caller passes the state on untouched.                             *)
(***************************************************************************)
Ret(m, v) == [m |-> m, v |-> v]

\* Value val_object(): a fresh Table on the heap.
val_object(m) ==
    Ret([m EXCEPT !.heap = Append(@, table_init)], obj_handle(Len(m.heap) + 1))

\* val_copy / val_free on the state's heap.
copy_in(m, v) ==
    With(val_copy(v, m.heap), LAMBDA c : Ret([m EXCEPT !.heap = c.heap], c.v))

free_in(m, v) == [m EXCEPT !.heap = val_free(v, @)]

RECURSIVE free_args(_, _, _)
\* for (i = from; i <= argc; i++) val_free(&args[i]);
free_args(m, args, i) ==
    IF i > Len(args) THEN m ELSE free_args(free_in(m, args[i]), args, i + 1)

val_equal(a, b) ==
    IF a.type # b.type THEN FALSE
    ELSE CASE a.type = "null" -> TRUE
           [] a.type = "bool" -> a.b = b.b
           [] a.type = "number" -> a = b
           [] a.type = "string" -> a.s = b.s
           [] OTHER -> FALSE

\* (long)l / (long)r in C: the quotient truncated toward zero.
TruncDiv(l, r) ==
    LET al == IF l < 0 THEN 0 - l ELSE l
        ar == IF r < 0 THEN 0 - r ELSE r
    IN  IF (l < 0) = (r < 0) THEN al \div ar ELSE 0 - (al \div ar)

\* The values of a long, LongBits wide.
LongRange == (0 - Pow2(LongBits - 1)) .. (Pow2(LongBits - 1) - 1)

\* (long)d for an integer-valued double d.  Out of the range of long the
\* conversion is undefined: ub is what it then yields.
to_long(d, ub) == IF d \in LongRange THEN d ELSE ub

\* (double)((long)l / (long)r), r # 0.  A divisor converted to 0, and the
\* quotient of LONG_MIN by -1, which fits no long, are undefined as well.
long_div(l, r, ub) ==
    IF to_long(r, ub) = 0 THEN ub
    ELSE IF TruncDiv(to_long(l, ub), to_long(r, ub)) \in LongRange
    THEN TruncDiv(to_long(l, ub), to_long(r, ub))
    ELSE ub

\* The built-in registry (it->builtins after builtins_register), for the
\* built-ins the model implements.
builtins ==
    [name \in {"__method_has", "__method_length", "jsonParse", "jsonStringify", "stringify"}
       |-> val_builtin(name)]

\* bfn.as.builtin(args, argc)
call_builtin(m, bi, args) ==
    CASE bi = "__method_has" ->
           IF Len(args) < 2 \/ args[1].type # "object" \/ args[2].type # "string"
           THEN val_bool(FALSE)
           ELSE val_bool(table_has(m.heap[args[1].ref].entries, args[2].s))
      [] bi = "__method_length" ->
           IF Len(args) < 1 THEN val_number(0)
           ELSE IF args[1].type = "string" THEN val_number(Len(args[1].s))
           ELSE IF args[1].type = "array" THEN val_number(Len(args[1].items))
           ELSE val_number(0)
      [] bi = "jsonParse" -> val_null
      [] bi = "jsonStringify" ->
           IF Len(args) < 1 THEN val_string("null") ELSE val_string(val_to_string(args[1]))
      [] bi = "stringify" ->
           IF Len(args) < 1 THEN val_string("") ELSE val_string(val_to_string(args[1]))

\* The method table of the class an object value names in __class__
\* (empty when v is no instance of a known class).
class_of(m, v) ==
    LET ent == IF v.type = "object" THEN m.heap[v.ref].entries ELSE EmptyTable
    IN  IF table_has(ent, "__class__") /\ ent["__class__"].type = "string"
           /\ table_has(m.classes, ent["__class__"].s)
        THEN m.classes[ent["__class__"].s] ELSE EmptyTable

\* resolve_call consulting the built-in registry before the receiver's class.
resolve_call_builtin_first(m, name, args) ==
    IF table_has(builtins, name.full)
    THEN [kind |-> "builtin", fn |-> name.full]
    ELSE IF name.method /\ Len(args) > 0 /\ table_has(class_of(m, args[1]), name.id)
    THEN [kind |-> "method", fn |-> class_of(m, args[1])[name.id]]
    ELSE IF table_has(m.functions, name.full)
    THEN [kind |-> "function", fn |-> m.functions[name.full]]
    ELSE [kind |-> "undefined", fn |-> name.full]

\* The callee NODE_FUNC_CALL picks for name and the evaluated args: a method
\* of the receiver's class first, then a built-in, then a user function,
\* then a variable holding a function.  name is [full, method, id]: id is
\* full without its "__method_" prefix when method says it has one.
resolve_call(m, name, args) ==
    IF name.method /\ Len(args) > 0 /\ table_has(class_of(m, args[1]), name.id)
    THEN [kind |-> "method", fn |-> class_of(m, args[1])[name.id]]
    ELSE IF table_has(builtins, name.full)
    THEN [kind |-> "builtin", fn |-> name.full]
    ELSE IF table_has(m.functions, name.full)
    THEN [kind |-> "function", fn |-> m.functions[name.full]]
    ELSE IF interp_get_var(m, name.full).found
            /\ interp_get_var(m, name.full).v.type = "function"
    THEN [kind |-> "function", fn |-> interp_get_var(m, name.full).v.f]
    ELSE [kind |-> "undefined", fn |-> name.full]

\* call_function up to the start of the body: the depth check, the new
\* scope, the parameters.  (Parameters have no default expressions here.)
RECURSIVE bind_params(_, _, _, _)
bind_params(m, params, args, i) ==
    IF i > Len(params) THEN m
    ELSE IF i <= Len(args)
    THEN bind_params(With(copy_in(m, args[i]),
                          LAMBDA c : interp_def_var(c.m, params[i], c.v)),
                     params, args, i + 1)
    ELSE bind_params(interp_def_var(m, params[i], val_null), params, args, i + 1)

\* call_enter refusing a call only once more than MAX_CALL_DEPTH are active.
call_enter_one_more(m, fn, args, line) ==
    IF m.call_depth > MAX_CALL_DEPTH
    THEN runtime_error(m, line, "stack overflow (max "
                                \o FormatLong(MAX_CALL_DEPTH) \o " call depth)")
    ELSE Then(push_scope([m EXCEPT !.call_depth = @ + 1]),
              LAMBDA m1 : [bind_params(m1, fn.params, args, 1)
                             EXCEPT !.return_flag = FALSE, !.return_value = val_null])

call_enter(m, fn, args, line) ==
    IF m.call_depth >= MAX_CALL_DEPTH
    THEN runtime_error(m, line, "stack overflow (max "
                                \o FormatLong(MAX_CALL_DEPTH) \o " call depth)")
    ELSE Then(push_scope([m EXCEPT !.call_depth = @ + 1]),
              LAMBDA m1 : [bind_params(m1, fn.params, args, 1)
                             EXCEPT !.return_flag = FALSE, !.return_value = val_null])

\* call_function after the body: the result, pop_scope, call_depth--.
call_exit(m) ==
    Ret([pop_scope(m) EXCEPT !.call_depth = @ - 1,
                             !.return_flag = FALSE,
                             !.return_value = IF m.return_flag THEN val_null ELSE @],
        IF m.return_flag THEN m.return_value ELSE val_null)

RECURSIVE eval_node(_, _)
RECURSIVE eval_list(_, _, _, _)
RECURSIVE exec_body(_, _, _)
RECURSIVE exec_stmt(_, _)
RECURSIVE eval_interp(_, _, _, _)

\* The loop evaluating the elements of an array literal or the arguments
\* of a call, left to right; v is the sequence of values.
eval_list(m, nodes, i, acc) ==
    IF i > Len(nodes) THEN Ret(m, acc)
    ELSE Bind(eval_node(m, nodes[i]),
              LAMBDA r : eval_list(r.m, nodes, i + 1, Append(acc, r.v)))

\* NODE_STRING_INTERP: the loop over the parts; buf is the text so far.
eval_interp(m, parts, i, buf) ==
    IF i > Len(parts) THEN Ret(m, val_string(buf))
    ELSE Bind(eval_node(m, parts[i]),
              LAMBDA r : eval_interp(free_in(r.m, r.v), parts, i + 1,
                                     buf \o val_to_string(r.v)))

\* NODE_PRINT / NODE_RETURN once the expression has been evaluated.
print_or_return(m, node, v) ==
    IF node.type = "NODE_PRINT"
    THEN [free_in(m, v) EXCEPT !.out = Append(@, val_to_string(v))]
    ELSE [m EXCEPT !.return_value = v, !.return_flag = TRUE]

\* exec_stmts over the stored body of a function called from inside an
\* expression; such bodies are made of statements that open no block.
exec_body(m, stmts, i) ==
    IF i > Len(stmts) \/ m.return_flag \/ m.break_flag \/ m.continue_flag THEN m
    ELSE Then(IF stmts[i].type \in {"NODE_PRINT", "NODE_RETURN"}
              THEN Do(eval_node(m, stmts[i].expr),
                      LAMBDA r : print_or_return(r.m, stmts[i], r.v))
              ELSE exec_stmt(m, stmts[i]),
              LAMBDA m1 : exec_body(m1, stmts, i + 1))

\* The process is killed by SIGSEGV (the shell reports status 139).
segfault(m) == [m EXCEPT !.status = "exit", !.exit_code = 139, !.jumped = TRUE]

\* call_function(it, fn, args, argc, line) run to completion.  Reading
\* fn->params and fn->body after ast_free has freed them is undefined:
\* m.stale is the outcome, the memory still intact or the process killed.
call_function(m, fn, args, line) ==
    IF fn.freed /\ m.stale = "crash" THEN Ret(segfault(m), val_null)
    ELSE With(Then(call_enter(m, fn, args, line), LAMBDA m1 : exec_body(m1, fn.body, 1)),
              LAMBDA m2 : IF m2.jumped THEN Ret(m2, val_null) ELSE call_exit(m2))

\* The numeric operations of NODE_BINARY.
eval_arith(m, node, l, r) ==
    CASE node.op = "TOKEN_PLUS" -> Ret(m, val_number(l + r))
      [] node.op = "TOKEN_MINUS" -> Ret(m, val_number(l - r))
      [] node.op = "TOKEN_MULTIPLY" -> Ret(m, val_number(l * r))
      [] node.op = "TOKEN_DIVIDE" ->
           \* node.ub_long, the outcome of an undefined conversion, is looked
           \* at only when there is one
           IF r = 0
           THEN Ret(runtime_error(m, node.line, "division by zero"), val_null)
           ELSE IF l \in LongRange /\ r \in LongRange /\ TruncDiv(l, r) \in LongRange
           THEN Ret(m, val_number(TruncDiv(l, r)))
           ELSE Ret(m, val_number(long_div(l, r, node.ub_long)))
      [] node.op = "TOKEN_MODULO" ->
           IF r = 0
           THEN Ret(runtime_error(m, node.line, "modulo by zero"), val_null)
           ELSE Ret(m, val_number(l - r * TruncDiv(l, r)))
      [] node.op = "TOKEN_GTE" -> Ret(m, val_bool(l >= r))
      [] node.op = "TOKEN_LTE" -> Ret(m, val_bool(l <= r))
      [] node.op = "TOKEN_GT" -> Ret(m, val_bool(l > r))
      [] node.op = "TOKEN_LT" -> Ret(m, val_bool(l < r))
      [] node.op = "TOKEN_EQ" -> Ret(m, val_bool(l = r))
      [] node.op = "TOKEN_NEQ" -> Ret(m, val_bool(l # r))

\* The numeric operations of NODE_BINARY when an operand is no integer:
\* l is ln / d and r is rn / d.
eval_real(m, node, ln, rn, d) ==
    CASE node.op = "TOKEN_PLUS" -> Ret(m, val_double(ln + rn, d))
      [] node.op = "TOKEN_MINUS" -> Ret(m, val_double(ln - rn, d))
      [] node.op = "TOKEN_MULTIPLY" -> Ret(m, val_double(ln * rn, d * d))
      [] node.op = "TOKEN_DIVIDE" ->
           IF rn = 0
           THEN Ret(runtime_error(m, node.line, "division by zero"), val_null)
           ELSE IF rn < 0 THEN Ret(m, val_double(0 - ln, 0 - rn))
           ELSE Ret(m, val_double(ln, rn))
      [] node.op = "TOKEN_MODULO" ->
           IF rn = 0
           THEN Ret(runtime_error(m, node.line, "modulo by zero"), val_null)
           ELSE Ret(m, val_double(ln - rn * TruncDiv(ln, rn), d))
      [] node.op = "TOKEN_GTE" -> Ret(m, val_bool(ln >= rn))
      [] node.op = "TOKEN_LTE" -> Ret(m, val_bool(ln <= rn))
      [] node.op = "TOKEN_GT" -> Ret(m, val_bool(ln > rn))
      [] node.op = "TOKEN_LT" -> Ret(m, val_bool(ln < rn))
      [] node.op = "TOKEN_EQ" -> Ret(m, val_bool(ln = rn))
      [] node.op = "TOKEN_NEQ" -> Ret(m, val_bool(ln # rn))

\* NODE_BINARY, other than and / or, once both operands are evaluated.
eval_binop(m, node, left, right) ==
    IF node.op = "TOKEN_PLUS" /\ (left.type = "string" \/ right.type = "string")
    THEN Ret(free_in(free_in(m, left), right),
             val_string(val_to_string(left) \o val_to_string(right)))
    ELSE IF left.type = "number" /\ right.type = "number"
    THEN IF is_integral(left) /\ is_integral(right)
         THEN eval_arith(m, node, left.n, right.n)
         ELSE IF is_integral(left)
         THEN eval_real(m, node, left.n * right.den, right.num, right.den)
         ELSE IF is_integral(right)
         THEN eval_real(m, node, left.num, right.n * left.den, left.den)
         ELSE eval_real(m, node, left.num * right.den, right.num * left.den,
                        left.den * right.den)
    ELSE IF node.op \in {"TOKEN_EQ", "TOKEN_NEQ"}
    THEN Ret(free_in(free_in(m, left), right),
             val_bool(val_equal(left, right) = (node.op = "TOKEN_EQ")))
    ELSE Ret(runtime_error(m, node.line, "unsupported operand types for binary op"),
             val_null)

\* NODE_BINARY evaluating the right operand before looking at the left one.
eval_binary_eager(m, node, left) ==
    Bind(eval_node(m, node.right),
         LAMBDA r :
           IF node.op = "TOKEN_AND"
           THEN Ret(free_in(free_in(r.m, left), r.v),
                    val_bool(val_is_truthy(left) /\ val_is_truthy(r.v)))
           ELSE IF node.op = "TOKEN_OR"
           THEN IF val_is_truthy(left) THEN Ret(free_in(r.m, r.v), left)
                ELSE Ret(free_in(r.m, left), r.v)
           ELSE eval_binop(r.m, node, left, r.v))

\* NODE_BINARY once the left operand has been evaluated.
eval_binary(m, node, left) ==
    IF node.op = "TOKEN_AND"
    THEN IF ~val_is_truthy(left) THEN Ret(free_in(m, left), val_bool(FALSE))
         ELSE Bind(eval_node(m, node.right),
                   LAMBDA r : Ret(free_in(free_in(r.m, left), r.v),
                                  val_bool(val_is_truthy(r.v))))
    ELSE IF node.op = "TOKEN_OR"
    THEN IF val_is_truthy(left) THEN Ret(m, left)
         ELSE eval_node(free_in(m, left), node.right)
    ELSE Bind(eval_node(m, node.right),
              LAMBDA r : eval_binop(r.m, node, left, r.v))

\* The copy of table entry t[key], or null when the key is absent.
copy_entry(m, t, key) ==
    IF table_has(t, key) THEN copy_in(m, table_get(t, key)) ELSE Ret(m, val_null)

\* NODE_ARRAY_INDEX once array_expr and index have been evaluated.
eval_index(m, arr, idx) ==
    IF arr.type = "array" /\ idx.type = "number"
    THEN With(IF idx.n < 0 THEN idx.n + Len(arr.items) ELSE idx.n,
              LAMBDA i :
                With(IF i >= 0 /\ i < Len(arr.items)
                     THEN copy_in(m, arr.items[i + 1]) ELSE Ret(m, val_null),
                     LAMBDA c : Ret(free_in(free_in(c.m, arr), idx), c.v)))
    ELSE IF arr.type = "object" /\ idx.type = "string"
    THEN With(copy_entry(m, m.heap[arr.ref].entries, idx.s),
              LAMBDA c : Ret(free_in(free_in(c.m, arr), idx), c.v))
    ELSE Ret(free_in(free_in(m, arr), idx), val_null)

\* NODE_OBJ_ACCESS (obj.key) once obj has been evaluated.
eval_access(m, obj, key) ==
    IF obj.type = "object" /\ key # "length"
    THEN With(copy_entry(m, m.heap[obj.ref].entries, key),
              LAMBDA c : Ret(free_in(c.m, obj), c.v))
    ELSE Ret(free_in(m, obj),
             IF key # "length" THEN val_null
             ELSE CASE obj.type = "object" ->
                         val_number(Cardinality(DOMAIN m.heap[obj.ref].entries))
                    [] obj.type = "string" -> val_number(Len(obj.s))
                    [] obj.type = "array" -> val_number(Len(obj.items))
                    [] OTHER -> val_null)

\* The receiver a method or constructor runs with: it->this_obj points at
\* a Value owned by the eval_node activation (frame) that makes the call.
This(v, frame) == [null |-> FALSE, v |-> v, frame |-> frame]

\* NODE_FUNC_CALL once the arguments have been evaluated and the callee
\* picked, for a callee whose body is stored (run to completion here).
eval_call(m, node, args, callee) ==
    CASE callee.kind = "method" ->
           Bind(call_function([m EXCEPT !.this_obj = This(args[1], Len(m.cstack))],
                              callee.fn, Tail(args), node.line),
                LAMBDA r : Ret(free_args([r.m EXCEPT !.this_obj = m.this_obj], args, 1),
                               r.v))
      [] callee.kind = "builtin" ->
           Ret(free_args(m, args, 1), call_builtin(m, callee.fn, args))
      [] callee.kind = "function" ->
           Bind(call_function(m, callee.fn, args, node.line),
                LAMBDA r : Ret(free_args(r.m, args, 1), r.v))
      [] OTHER ->
           Ret(runtime_error(free_args(m, args, 1), node.line,
                             "undefined function '" \o callee.fn \o "'"), val_null)

\* NODE_UNARY once the operand has been evaluated.
eval_unary(m, node, operand) ==
    IF node.op = "TOKEN_MINUS"
    THEN IF operand.type # "number"
         THEN Ret(runtime_error(m, node.line, "unary minus requires number"), val_null)
         ELSE IF is_integral(operand) THEN Ret(m, val_number(0 - operand.n))
         ELSE Ret(m, val_double(0 - operand.num, operand.den))
    ELSE IF node.op = "TOKEN_NOT"
    THEN Ret(free_in(m, operand), val_bool(~val_is_truthy(operand)))
    ELSE Ret(m, val_null)

\* table_set(obj.as.object, key, val)
heap_set(m, ref, key, val) ==
    [m EXCEPT !.heap = [(IF table_has(m.heap[ref].entries, key)
                         THEN val_free(m.heap[ref].entries[key], @) ELSE @)
                          EXCEPT ![ref].entries = table_put(@, key, val)]]

RECURSIVE eval_fields(_, _, _, _, _)
\* The loop of NODE_OBJECT: table_set(obj, keys[i], eval(values[i])).
eval_fields(m, obj, keys, values, i) ==
    IF i > Len(keys) THEN Ret(m, obj)
    ELSE Bind(eval_node(m, values[i]),
              LAMBDA r : eval_fields(heap_set(r.m, obj.ref, keys[i], r.v),
                                     obj, keys, values, i + 1))

eval_node(m, node) ==
    CASE node.type = "NODE_NUMBER" ->
           \* a literal that is no integer carries its fraction num / den
           IF "number" \in DOMAIN node THEN Ret(m, val_number(node.number))
           ELSE Ret(m, val_double(node.num, node.den))
      [] node.type = "NODE_STRING" -> Ret(m, val_string(node.str))
      [] node.type = "NODE_BOOL" -> Ret(m, val_bool(node.boolean))
      [] node.type = "NODE_NULL" -> Ret(m, val_null)
      [] node.type = "NODE_THIS" ->
           IF m.this_obj.null THEN Ret(m, val_null) ELSE copy_in(m, m.this_obj.v)
      [] node.type = "NODE_VARIABLE" ->
           IF interp_get_var(m, node.var_name).found
           THEN copy_in(m, interp_get_var(m, node.var_name).v)
           ELSE IF table_has(m.functions, node.var_name)
           THEN Ret(m, val_func(m.functions[node.var_name]))
           ELSE Ret(runtime_error(m, node.line, "undefined variable '"
                                     \o node.var_name \o "'"), val_null)
      [] node.type = "NODE_ARRAY" ->
           Bind(eval_list(m, node.elements, 1, <<>>),
                LAMBDA r : Ret(r.m, val_array(r.v)))
      [] node.type = "NODE_OBJECT" ->
           With(val_object(m),
                LAMBDA o : eval_fields(o.m, o.v, node.keys, node.values, 1))
      [] node.type = "NODE_BINARY" ->
           Bind(eval_node(m, node.left), LAMBDA l : eval_binary(l.m, node, l.v))
      [] node.type = "NODE_UNARY" ->
           Bind(eval_node(m, node.operand), LAMBDA o : eval_unary(o.m, node, o.v))
      [] node.type = "NODE_TERNARY" ->
           Bind(eval_node(m, node.condition),
                LAMBDA c : eval_node(free_in(c.m, c.v),
                                     IF val_is_truthy(c.v) THEN node.then_expr
                                     ELSE node.else_expr))
      [] node.type = "NODE_STRING_INTERP" -> eval_interp(m, node.parts, 1, "")
      [] node.type = "NODE_ARRAY_INDEX" ->
           Bind(eval_node(m, node.array_expr),
                LAMBDA a : Bind(eval_node(a.m, node.index),
                                LAMBDA i : eval_index(i.m, a.v, i.v)))
      [] node.type = "NODE_OBJ_ACCESS" ->
           Bind(eval_node(m, node.obj), LAMBDA o : eval_access(o.m, o.v, node.key))
      [] node.type = "NODE_FUNC_CALL" ->
           Bind(eval_list(m, node.args, 1, <<>>),
                LAMBDA a : eval_call(a.m, node, a.v,
                                     resolve_call(a.m, node.name, a.v)))
      [] OTHER -> Ret(m, val_null) \* default: break; return val_null()

(***************************************************************************)
(* Statements.  A step's input is a statement in surface form; the parser  *)
(* turns it into the AST node exec_stmt runs.                              *)
(***************************************************************************)
\* parse_statement: `let x = e` and `x = e` both become NODE_ASSIGN;
\* `a.k = e` and `a[i] = e` both become NODE_OBJ_ASSIGN.
parse_statement(src) ==
    CASE src.form \in {"let", "assign"} ->
           [type |-> "NODE_ASSIGN", line |-> src.line, name |-> src.name,
            value |-> src.value]
      [] src.form = "member_assign" ->
           [type |-> "NODE_OBJ_ASSIGN", line |-> src.line, obj |-> src.obj,
            key |-> src.key, key_expr |-> [type |-> "NODE_NULL"],
            is_bracket |-> FALSE, value |-> src.value]
      [] src.form = "index_assign" ->
           [type |-> "NODE_OBJ_ASSIGN", line |-> src.line, obj |-> src.obj,
            key |-> NoName, key_expr |-> src.index,
            is_bracket |-> TRUE, value |-> src.value]
      [] src.form = "print" ->
           [type |-> "NODE_PRINT", line |-> src.line, expr |-> src.expr]
      [] src.form = "throw" ->
           [type |-> "NODE_THROW", line |-> src.line, throw_val |-> src.expr]
      [] src.form = "return" ->
           [type |-> "NODE_RETURN", line |-> src.line, expr |-> src.expr]
      [] src.form = "break" -> [type |-> "NODE_BREAK", line |-> src.line]
      [] src.form = "continue" -> [type |-> "NODE_CONTINUE", line |-> src.line]
      [] src.form = "fn" ->
           [type |-> "NODE_FUNC_DEF", line |-> src.line, name |-> src.name,
            params |-> src.params, body |-> src.body, open |-> src.open]
      [] src.form = "class" ->
           [type |-> "NODE_CLASS", line |-> src.line, name |-> src.name,
            methods |-> src.methods]
      [] src.form = "expr" -> src.expr

\* NODE_OBJ_ASSIGN once obj, value and the key expression have been
\* evaluated.  An array obj is the copy NODE_VARIABLE returned: the store
\* goes into that copy, which is then freed.
store_member(m, obj, key, val) ==
    IF obj.type = "object"
    THEN IF key.type = "string"
         THEN free_in(free_in(heap_set(m, obj.ref, key.s, val), key), obj)
         ELSE free_in(free_in(m, key), obj)
    ELSE IF key.type = "number" /\ key.n >= 0 /\ key.n < Len(obj.items)
    THEN free_in(free_in(free_in(m, obj.items[key.n + 1]), key),
                 [obj EXCEPT !.items[key.n + 1] = val])
    ELSE free_in(free_in(m, key), obj)

\* NODE_OBJ_ASSIGN once obj and value have been evaluated.
exec_store(m, node, obj, val) ==
    IF obj.type = "object" /\ ~node.is_bracket
    THEN free_in(heap_set(m, obj.ref, node.key, val), obj)
    ELSE IF obj.type \in {"object", "array"} /\ node.is_bracket
    THEN Do(eval_node(m, node.key_expr),
            LAMBDA k : store_member(k.m, obj, k.v, val))
    ELSE free_in(m, obj)

\* NODE_OBJ_ASSIGN
exec_obj_assign(m, node) ==
    Do(eval_node(m, node.obj),
       LAMBDA o : Do(eval_node(o.m, node.value),
                     LAMBDA v : exec_store(v.m, node, o.v, v.v)))

\* NODE_ASSIGN
exec_assign(m, node) ==
    Do(eval_node(m, node.value), LAMBDA r : interp_set_var(r.m, node.name, r.v))

\* The binary operator a compound assignment operator applies.
comp_op(op) ==
    CASE op = "TOKEN_PLUS_ASSIGN" -> "TOKEN_PLUS"
      [] op = "TOKEN_MINUS_ASSIGN" -> "TOKEN_MINUS"
      [] op = "TOKEN_MULTIPLY_ASSIGN" -> "TOKEN_MULTIPLY"
      [] op = "TOKEN_DIVIDE_ASSIGN" -> "TOKEN_DIVIDE"

\* val_to_string(current) in NODE_COMPOUND_ASSIGN.  current is the Value
\* interp_get_var gave before the right side was evaluated, not a copy:
\* when dangling says that the binding has been set since, its string
\* buffer is freed and the read is undefined.  m.stale is the outcome: the
\* old text still there, the buffer reused for the right side's string, or
\* the process killed.
stale_to_string(m, current, rhs, dangling) ==
    IF dangling /\ current.type = "string"
    THEN IF m.stale = "crash" THEN Ret(segfault([m EXCEPT !.stale_read = TRUE]), "")
         ELSE Ret([m EXCEPT !.stale_read = TRUE],
                  IF m.stale = "reused" THEN val_to_string(rhs) ELSE val_to_string(current))
    ELSE Ret(m, val_to_string(current))

\* NODE_COMPOUND_ASSIGN once the variable has been read and the right side
\* evaluated: numbers combine as in NODE_BINARY, += joins the renderings
\* when either is a string.
comp_assign_result(m, node, current, rhs, dangling) ==
    IF current.type = "number" /\ rhs.type = "number"
    THEN Do(eval_binop(m, [op |-> comp_op(node.op), line |-> node.line,
                           ub_long |-> node.ub_long], current, rhs),
            LAMBDA r : interp_set_var(r.m, node.name, r.v))
    ELSE IF node.op = "TOKEN_PLUS_ASSIGN" /\ (current.type = "string" \/ rhs.type = "string")
    THEN Do(stale_to_string(m, current, rhs, dangling),
            LAMBDA ls : interp_set_var(free_in(ls.m, rhs), node.name,
                                       val_string(ls.v \o val_to_string(rhs))))
    ELSE runtime_error(m, node.line, "unsupported types for compound assignment")

\* The binding of name that m holds has been set again on the way to m1,
\* which freed the value it held.
set_since(m, m1, name) ==
    \E k \in (Len(m.released) + 1)..Len(m1.released) :
        m1.released[k] = <<find_scope(m, name), name>>

\* NODE_COMPOUND_ASSIGN: the target is a variable name.
exec_comp_assign(m, node) ==
    IF ~interp_get_var(m, node.name).found
    THEN runtime_error(m, node.line, "undefined variable '" \o node.name \o "'")
    ELSE Do(eval_node(m, node.value),
            LAMBDA r : comp_assign_result(r.m, node, interp_get_var(m, node.name).v, r.v,
                                          set_since(m, r.m, node.name)))

\* NODE_THROW raising the rendering the way runtime_error raises a message,
\* with the line in front.
exec_throw_with_line(m, node) ==
    Do(eval_node(m, node.throw_val),
       LAMBDA r : runtime_error(free_in(r.m, r.v), node.line, val_to_string(r.v)))

\* NODE_THROW
exec_throw(m, node) ==
    Do(eval_node(m, node.throw_val),
       LAMBDA r : throw_exception(free_in(r.m, r.v), val_to_string(r.v)))

\* The FuncDef made from a NODE_FUNC_DEF node (or a class's method): params
\* and body are the node's own arrays, not copies.  open says that the body
\* is not stored: it is the steps that follow a call.  freed says that
\* ast_free has freed the arrays and the nodes of the body.
FuncDef(node) ==
    [name |-> node.name, params |-> node.params, body |-> node.body,
     open |-> node.open, freed |-> FALSE]

\* NODE_CLASS: the method table; a later method of the same name replaces
\* an earlier one.
class_table(methods) ==
    LET idx == 1..Len(methods)
        at(k) == CHOOSE i \in idx : /\ methods[i].name = k
                                    /\ \A j \in idx : methods[j].name = k => j <= i
    IN  [k \in {methods[i].name : i \in idx} |-> FuncDef(methods[at(k)])]

\* The files on disk, by path: m and b import each other, b imports c, c
\* imports itself and b, d imports nothing, e imports d and x, which does
\* not exist, f imports d, h defines fn h() { return 7 }.  Each prints its
\* own path first.
Files ==
    ("m" :> <<"p", "r", "i", "n", "t", " ", "\"", "m", "\"", "\n",
              "i", "m", "p", "o", "r", "t", " ", "\"", "b", "\"">>)
    @@ ("b" :> <<"p", "r", "i", "n", "t", " ", "\"", "b", "\"", "\n",
                 "i", "m", "p", "o", "r", "t", " ", "\"", "m", "\"", "\n",
                 "i", "m", "p", "o", "r", "t", " ", "\"", "c", "\"">>)
    @@ ("c" :> <<"p", "r", "i", "n", "t", " ", "\"", "c", "\"", "\n",
                 "i", "m", "p", "o", "r", "t", " ", "\"", "c", "\"", "\n",
                 "i", "m", "p", "o", "r", "t", " ", "\"", "b", "\"">>)
    @@ ("d" :> <<"p", "r", "i", "n", "t", " ", "\"", "d", "\"">>)
    @@ ("e" :> <<"p", "r", "i", "n", "t", " ", "\"", "e", "\"", "\n",
                 "i", "m", "p", "o", "r", "t", " ", "\"", "d", "\"", "\n",
                 "i", "m", "p", "o", "r", "t", " ", "\"", "x", "\"">>)
    @@ ("f" :> <<"p", "r", "i", "n", "t", " ", "\"", "f", "\"", "\n",
                 "i", "m", "p", "o", "r", "t", " ", "\"", "d", "\"">>)
    @@ ("h" :> <<"p", "r", "i", "n", "t", " ", "\"", "h", "\"", "\n",
                 "f", "n", " ", "h", "(", ")", " ", "{", " ",
                 "r", "e", "t", "u", "r", "n", " ", "7", " ", "}">>)

RECURSIVE interp_run(_, _, _)
\* NODE_IMPORT: nothing for a path of it->imported; otherwise the path
\* joins it->imported and the file is read and run by interp_run (the
\* files have no division, so no conversion of one is undefined).
exec_import(m, node) ==
    IF \E i \in DOMAIN m.imported : m.imported[i] = node.import_path THEN m
    ELSE IF Len(m.imported) >= MAX_IMPORTED
    THEN runtime_error(m, node.line, "too many imports")
    ELSE With([m EXCEPT !.imported = Append(@, node.import_path)],
              LAMBDA m1 :
                IF node.import_path \notin DOMAIN Files
                THEN runtime_error(m1, node.line,
                                   "cannot open import file '" \o node.import_path \o "'")
                ELSE interp_run(m1, Files[node.import_path], 0))

\* exec_stmt for the statements that open no block and call no function
\* whose body is given by later steps.
exec_stmt(m, node) ==
    CASE node.type \in {"NODE_PRINT", "NODE_RETURN"} ->
           Do(eval_node(m, node.expr), LAMBDA r : print_or_return(r.m, node, r.v))
      [] node.type = "NODE_ASSIGN" -> exec_assign(m, node)
      [] node.type = "NODE_OBJ_ASSIGN" -> exec_obj_assign(m, node)
      [] node.type = "NODE_COMPOUND_ASSIGN" -> exec_comp_assign(m, node)
      [] node.type = "NODE_THROW" -> exec_throw(m, node)
      [] node.type = "NODE_BREAK" -> [m EXCEPT !.break_flag = TRUE]
      [] node.type = "NODE_CONTINUE" -> [m EXCEPT !.continue_flag = TRUE]
      [] node.type = "NODE_FUNC_DEF" ->
           [m EXCEPT !.functions = table_put(@, node.name, FuncDef(node))]
      [] node.type = "NODE_CLASS" ->
           [m EXCEPT !.classes = table_put(@, node.name, class_table(node.methods))]
      [] node.type = "NODE_IMPORT" -> exec_import(m, node)
      [] OTHER -> \* default (NODE_OBJ_COMPOUND_ASSIGN has no case of its own):
                  \* an expression statement, evaluate and discard
           Do(eval_node(m, node), LAMBDA r : free_in(r.m, r.v))

(***************************************************************************)
(* Steps.  A statement runs when the enclosing exec_stmts loop would reach *)
(* it: the process is alive and no return / break / continue is pending.   *)
(* A block ends when its statements run out or a flag is pending.          *)
(***************************************************************************)
\* The step leaves state m, having run src.
Done(m, src) ==
    /\ Commit(m)
    /\ last' = [stmt |-> src, raised |-> m.jumped, stale_read |-> m.stale_read]

Running == status = "run" /\ ~return_flag /\ ~break_flag /\ ~continue_flag

Top == cstack[Len(cstack)]

TopIs(kind) == status = "run" /\ Len(cstack) > 0 /\ Top.kind = kind

PushFrame(m, f) == [m EXCEPT !.cstack = Append(@, f)]

PopFrame(m) == [m EXCEPT !.cstack = SubSeq(@, 1, Len(@) - 1)]

\* A statement that opens no block: print, let, assignment, member and
\* index assignment, throw, return, break, continue, fn, class, or an
\* expression.
Stmt(src) ==
    /\ Running
    /\ Done(exec_stmt(Machine, parse_statement(src)), src)

\* NODE_TRY_CATCH up to the first statement of the try block.
try_enter(m, src) ==
    IF try_depth(m) >= MAX_TRY_DEPTH
    THEN runtime_error(m, src.line, "too many nested try blocks")
    ELSE push_scope([m EXCEPT
           !.cstack = Append(@, [kind |-> "try", phase |-> "try",
                                 saved_scope |-> scope_depth(m),
                                 catch_var |-> src.catch_var, runs |-> 0]),
           !.try_stack = Append(@, Len(m.cstack) + 1)])

EnterTry(src) == Running /\ Done(try_enter(Machine, src), src)

\* NODE_TRY_CATCH from the end of the try block, or of the catch body.
try_exit(m, f) ==
    PopFrame([pop_scope(m) EXCEPT
                !.exception_msg = IF f.phase = "catch" THEN Null ELSE @,
                !.try_stack = SubSeq(@, 1, Len(@) - 1)])

ExitTry == TopIs("try") /\ Done(try_exit(Machine, Top), [form |-> "end", kind |-> "try"])

\* NODE_IF up to the first statement of the branch taken.
if_enter(m, src, cond) ==
    IF val_is_truthy(cond) \/ src.has_else
    THEN Then(push_scope(free_in(m, cond)), LAMBDA m1 : PushFrame(m1, [kind |-> "if"]))
    ELSE free_in(m, cond)

EnterIf(src) ==
    /\ Running
    /\ Done(Do(eval_node(Machine, src.cond), LAMBDA r : if_enter(r.m, src, r.v)), src)

ExitIf == TopIs("if") /\ Done(PopFrame(pop_scope(Machine)), [form |-> "end", kind |-> "if"])

\* What a loop of NODE_FOR runs over: the items of its array, or keysArr,
\* the keys of its object.
for_items(f) == IF f.iterable.type = "object" THEN f.keysArr ELSE f.iterable.items

\* The loop of NODE_FOR over an array or the keys of an object: the scope
\* of iteration f.i.
for_iter(m, f) ==
    Then(push_scope(m),
         LAMBDA m1 : With(copy_in(m1, for_items(f)[f.i]),
                          LAMBDA c : PushFrame(interp_def_var(c.m, f.var, c.v), f)))

\* NODE_FOR up to the first statement of the first iteration.
for_enter(m, src, iterable) ==
    IF iterable.type = "array" /\ Len(iterable.items) > 0
    THEN for_iter(m, [kind |-> "for", var |-> src.var, iterable |-> iterable, i |-> 1])
    ELSE IF iterable.type = "object" /\ DOMAIN m.heap[iterable.ref].entries # {}
    THEN With(table_keys(m.heap[iterable.ref].entries, 0),
              LAMBDA keys :
                for_iter(m, [kind |-> "for", var |-> src.var, iterable |-> iterable,
                             i |-> 1,
                             keysArr |-> [j \in DOMAIN keys |-> val_string(keys[j])]]))
    ELSE free_in(m, iterable)

EnterFor(src) ==
    /\ Running
    /\ Done(Do(eval_node(Machine, src.iterable), LAMBDA r : for_enter(r.m, src, r.v)),
            src)

\* NODE_FOR from the end of an iteration's body: the next iteration, or
\* the end of the loop.
for_next(m, f) ==
    IF m.break_flag THEN free_in([m EXCEPT !.break_flag = FALSE], f.iterable)
    ELSE IF m.return_flag THEN free_in(m, f.iterable)
    ELSE IF f.i < Len(for_items(f))
    THEN for_iter([m EXCEPT !.continue_flag = FALSE], [f EXCEPT !.i = @ + 1])
    ELSE free_in([m EXCEPT !.continue_flag = FALSE], f.iterable)

ExitFor ==
    /\ TopIs("for")
    /\ Done(for_next(PopFrame(pop_scope(Machine)), Top), [form |-> "end", kind |-> "for"])

\* NODE_FUNC_CALL as an expression statement, once the arguments have been
\* evaluated and the callee picked, up to the first statement of the body
\* of a callee whose body is the steps that follow.
call_stmt(m, src, args, callee) ==
    CASE callee.kind = "method" ->
           Then(call_enter([m EXCEPT !.this_obj = This(args[1], Len(m.cstack) + 1)],
                           callee.fn, Tail(args), src.line),
                LAMBDA m1 : PushFrame(m1, [kind |-> "call", via |-> "method",
                                           this_save |-> m.this_obj, args |-> args]))
      [] callee.kind = "function" ->
           Then(call_enter(m, callee.fn, args, src.line),
                LAMBDA m1 : PushFrame(m1, [kind |-> "call", via |-> "function",
                                           this_save |-> m.this_obj, args |-> args]))
      [] callee.kind = "builtin" ->
           free_in(free_args(m, args, 1), call_builtin(m, callee.fn, args))
      [] OTHER ->
           runtime_error(free_args(m, args, 1), src.line,
                         "undefined function '" \o callee.fn \o "'")

CallStmt(src) ==
    /\ Running
    /\ Done(Do(eval_list(Machine, src.args, 1, <<>>),
               LAMBDA a : call_stmt(a.m, src, a.v, resolve_call(a.m, src.name, a.v))),
            src)

\* NODE_NEW once the class is known to exist, the instance is made and the
\* arguments evaluated: the constructor ("constructor", else "init") is
\* entered, or, without one, the instance is assigned at once.
new_stmt(m, src, instance, args, cls, this_save) ==
    IF table_has(cls, "constructor") \/ table_has(cls, "init")
    THEN Then(call_enter([m EXCEPT !.this_obj = This(instance, Len(m.cstack) + 1)],
                         IF table_has(cls, "constructor")
                         THEN cls["constructor"] ELSE cls["init"],
                         args, src.line),
              LAMBDA m1 : PushFrame(m1, [kind |-> "call", via |-> "new",
                                         this_save |-> this_save, args |-> args,
                                         name |-> src.name, instance |-> instance]))
    ELSE interp_set_var(free_args(m, args, 1), src.name, instance)

\* `let x = new C(args)`: NODE_ASSIGN of a NODE_NEW.
new_enter(m, src) ==
    IF ~table_has(m.classes, src.class_name)
    THEN runtime_error(m, src.line, "undefined class '" \o src.class_name \o "'")
    ELSE With(val_object(m),
           LAMBDA o :
             Do(eval_list(heap_set(o.m, o.v.ref, "__class__", val_string(src.class_name)),
                          src.args, 1, <<>>),
                LAMBDA a : new_stmt(a.m, src, o.v, a.v, m.classes[src.class_name],
                                    m.this_obj)))

NewStmt(src) == Running /\ Done(new_enter(Machine, src), src)

\* The end of a called function's body: call_function's epilogue, then the
\* rest of NODE_FUNC_CALL / NODE_NEW and of the calling statement.
call_return(r, f) ==
    IF f.via = "new"
    THEN interp_set_var(free_args([r.m EXCEPT !.this_obj = f.this_save], f.args, 1),
                        f.name, f.instance)
    ELSE IF f.via = "method"
    THEN free_in(free_args([r.m EXCEPT !.this_obj = f.this_save], f.args, 1), r.v)
    ELSE free_in(free_args(r.m, f.args, 1), r.v)

ExitCall ==
    /\ TopIs("call")
    /\ Done(call_return(call_exit(PopFrame(Machine)), Top), [form |-> "end", kind |-> "call"])

\* The program's statements have run out: main returns 0.
Finish ==
    /\ status = "run"
    /\ cstack = <<>>
    /\ Done([Machine EXCEPT !.status = "exit", !.exit_code = 0], [form |-> "eof"])

(***************************************************************************)
(* interp_init: the state in which the first statement runs.               *)
(***************************************************************************)
interp_init ==
    /\ scopes = <<EmptyTable>>
    /\ globals = EmptyTable
    /\ functions = EmptyTable
    /\ classes = EmptyTable
    /\ heap = <<>>
    /\ this_obj = Null
    /\ call_depth = 0
    /\ try_stack = <<>>
    /\ imported = <<>>
    /\ break_flag = FALSE
    /\ continue_flag = FALSE
    /\ return_flag = FALSE
    /\ return_value = val_null
    /\ exception_msg = Null
    /\ exception_active = FALSE
    /\ cstack = <<>>
    /\ status = "run"
    /\ exit_code = 0
    /\ err_stream = <<>>
    /\ out = <<>>
    /\ last = [stmt |-> [form |-> "start"], raised |-> FALSE, stale_read |-> FALSE]

Init == interp_init

(***************************************************************************)
(* Literals and variable references, as parse_primary builds them.         *)
(***************************************************************************)
NumLit(n) == [type |-> "NODE_NUMBER", line |-> 1, number |-> n]

StrLit(str) == [type |-> "NODE_STRING", line |-> 1, str |-> str]

BoolLit(b) == [type |-> "NODE_BOOL", line |-> 1, boolean |-> b]

VarRef(x) == [type |-> "NODE_VARIABLE", line |-> 1, var_name |-> x]

Binary(op, l, r) == [type |-> "NODE_BINARY", line |-> 1, op |-> op, left |-> l, right |-> r]

Unary(op, e) == [type |-> "NODE_UNARY", line |-> 1, op |-> op, operand |-> e]

(***************************************************************************)
(* Programs that throw, fail and catch: try / catch, throw, a division by  *)
(* zero, a reference to an undefined variable, if blocks.                  *)
(***************************************************************************)
ThrowStmts ==
    {[form |-> "throw", line |-> 1, expr |-> e] :
        e \in {StrLit("x"), NumLit(42)}}

FailingStmts ==
    {[form |-> "print", line |-> 1, expr |-> e] :
        e \in {Binary("TOKEN_DIVIDE", NumLit(1), NumLit(0)), VarRef("u")}}

TryStmts == {[form |-> "try", line |-> 1, catch_var |-> c] : c \in {"e", NoName}}

IfTrue == [form |-> "if", line |-> 1, cond |-> BoolLit(TRUE), has_else |-> FALSE]

Next ==
    \/ \E src \in ThrowStmts \cup FailingStmts : Stmt(src)
    \/ \E src \in TryStmts : Len(cstack) < MaxStack /\ EnterTry(src)
    \/ ExitTry
    \/ Len(cstack) < MaxStack /\ EnterIf(IfTrue)
    \/ ExitIf
    \/ Finish

Spec == Init /\ [][Next]_vars

(***************************************************************************)
(* Exceptions: C1, C2, C3 (under Spec).                                    *)
(***************************************************************************)
\* The try statements whose try block is executing.
ActiveTries == {i \in 1..Len(cstack) : cstack[i].kind = "try" /\ cstack[i].phase = "try"}

\* The innermost try statement not yet left is running its catch body.
InCatchBody ==
    /\ try_stack # <<>>
    /\ cstack[try_stack[Len(try_stack)]].phase = "catch"

\* C1: an exception raised while the catch body of a try statement runs
\* goes to the catch body of the next enclosing try, or ends the program
\* as uncaught; it never re-enters the catch body of the try that is
\* handling (whose frame is therefore gone after the raise).
C1_CatchBodyNotReentered ==
    [][(last'.raised /\ InCatchBody)
         => \/ status' = "exit"
            \/ Len(cstack') < try_stack[Len(try_stack)]]_vars

\* C2: an error raised while a try block is executing is delivered, as the
\* exception message, to the catch body of the innermost such try; raised
\* while none is, it writes a line to stderr and ends the process with
\* status 1; and nothing runs once the process has ended.
C2_ErrorDeliveredOrFatal ==
    [][/\ status = "run"
       /\ last'.raised =>
            IF ActiveTries # {}
            THEN LET t == CHOOSE i \in ActiveTries : \A j \in ActiveTries : j <= i
                 IN  /\ status' = "run"
                     /\ Len(cstack') = t
                     /\ cstack'[t].phase = "catch"
                     /\ ~exception_msg'.null
                     /\ cstack'[t].catch_var # NoName =>
                          scopes'[Len(scopes')][cstack'[t].catch_var]
                            = val_string(exception_msg'.s)
            ELSE /\ status' = "exit"
                 /\ exit_code' = 1
                 /\ Len(err_stream') = Len(err_stream) + 1]_vars

\* C3: when a throw is caught, the catch variable holds exactly the
\* rendering of the thrown value, as a string: "x" for the string "x"
\* (no prefix, no suffix), "42" for the number 42.
C3_CatchVarIsRendering ==
    (/\ last.stmt.form = "throw"
     /\ status = "run"
     /\ Top.catch_var # NoName)
    => scopes[Len(scopes)][Top.catch_var]
         = [type |-> "string",
            s |-> CASE last.stmt.expr = StrLit("x") -> "x"
                    [] last.stmt.expr = NumLit(42) -> "42"]

\* A thrown number 42 has been caught as the string "42".
C3_Witness ==
    /\ last.stmt.form = "throw"
    /\ last.stmt.expr = NumLit(42)
    /\ status = "run"
    /\ Top.phase = "catch"
    /\ scopes[Len(scopes)]["e"] = [type |-> "string", s |-> "42"]

(***************************************************************************)
(* Programs that bind and assign one variable from nested blocks and from  *)
(* the bodies of the functions f() and g(x), called from any of them.      *)
(***************************************************************************)
\* let x = e
Let(x, e) == [form |-> "let", line |-> 1, name |-> x, value |-> e]

\* x = e
Assign(x, e) == [form |-> "assign", line |-> 1, name |-> x, value |-> e]

\* fn name(params) { body }; an open function's body is the steps that
\* follow a call of it.
Fn(name, params, body, open) ==
    [form |-> "fn", line |-> 1, name |-> name, params |-> params, body |-> body,
     open |-> open]

\* The name of a plain call f(...), and of a method call recv.m(...), which
\* parse_postfix turns into __method_m(recv, ...).
plain_name(f) == [full |-> f, method |-> FALSE, id |-> f]

method_name(f) == [full |-> "__method_" \o f, method |-> TRUE, id |-> f]

\* name(args) as a statement
Call(name, args) == [form |-> "call", line |-> 1, name |-> name, args |-> args]

NextVar ==
    \/ \E src \in {Fn("f", <<>>, <<>>, TRUE), Fn("g", <<"x">>, <<>>, TRUE)} :
          cstack = <<>> /\ ~table_has(functions, src.name) /\ Stmt(src)
    \/ \E n \in 1..MaxValue : Stmt(Let("x", NumLit(n)))
    \/ \E n \in 1..MaxValue : Stmt(Assign("x", NumLit(n)))
    \/ Len(cstack) < MaxStack /\ EnterIf(IfTrue)
    \/ ExitIf
    \/ \E src \in {Call(plain_name("f"), <<>>), Call(plain_name("g"), <<NumLit(1)>>)} :
          Len(cstack) < MaxStack /\ CallStmt(src)
    \/ ExitCall
    \/ Finish

SpecVar == Init /\ [][NextVar]_vars

(***************************************************************************)
(* Variables: C7, C8 (under SpecVar).                                      *)
(***************************************************************************)
\* The scopes that define name.
Defining(name) == {i \in 1..Len(scopes) : name \in DOMAIN scopes[i]}

\* C7: let x = e binds x in the current innermost scope and leaves every
\* enclosing scope, and so an enclosing binding of x, unchanged.
C7_LetBindsInnermost ==
    [][last'.stmt.form = "let" =>
         /\ Len(scopes') = Len(scopes)
         /\ \A i \in 1..(Len(scopes) - 1) : scopes'[i] = scopes[i]
         /\ Len(scopes) \in Defining("x")'
         /\ scopes'[Len(scopes)]["x"] = [type |-> "number", n |-> last'.stmt.value.number]]_vars

\* C8: x = e updates x in the nearest scope, from the innermost outward
\* (callers' scopes included), that defines x, and only that scope; when
\* no scope defines x it creates x in the current innermost scope.
C8_AssignUpdatesNearest ==
    [][last'.stmt.form = "assign" =>
         LET v == [type |-> "number", n |-> last'.stmt.value.number]
             target == IF Defining("x") = {} THEN Len(scopes)
                       ELSE CHOOSE i \in Defining("x") : \A j \in Defining("x") : j <= i
         IN  /\ Len(scopes') = Len(scopes)
             /\ target \in Defining("x")'
             /\ scopes'[target]["x"] = v
             /\ \A k \in DOMAIN scopes[target] \ {"x"} : scopes'[target][k] = scopes[target][k]
             /\ \A i \in (1..Len(scopes)) \ {target} : scopes'[i] = scopes[i]]_vars

\* An assignment made inside f, called from a block, has just changed the
\* x of the top-level scope, two scopes further out, which alone defines x.
C8_Witness ==
    /\ last.stmt.form = "assign"
    /\ Len(cstack) = 2
    /\ cstack[1].kind = "if"
    /\ cstack[2].kind = "call"
    /\ Defining("x") = {1}
    /\ scopes[1]["x"] = [type |-> "number", n |-> last.stmt.value.number]

(***************************************************************************)
(* Programs over one instance of a class C, held by a and b, a plain       *)
(* object o and an array arr.                                              *)
(***************************************************************************)
\* this
ThisRef == [type |-> "NODE_THIS", line |-> 1]

\* obj.key
Member(obj, key) == [type |-> "NODE_OBJ_ACCESS", line |-> 1, obj |-> obj, key |-> key]

\* arr[i]
Index(arr, i) == [type |-> "NODE_ARRAY_INDEX", line |-> 1, array_expr |-> arr, index |-> i]

\* name(args) as an expression; recv.f(args) is __method_f(recv, args).
FuncCall(name, args) ==
    [type |-> "NODE_FUNC_CALL", line |-> 1, name |-> name, args |-> args]

\* class C { fn constructor(v) { ... }  fn set(v) { ... }
\*           fn has(k) { return this.f } }
ClassC ==
    [form |-> "class", line |-> 1, name |-> "C",
     methods |-> <<[name |-> "constructor", params |-> <<"v">>, body |-> <<>>,
                    open |-> TRUE],
                   [name |-> "set", params |-> <<"v">>, body |-> <<>>, open |-> TRUE],
                   [name |-> "has", params |-> <<"k">>, open |-> FALSE,
                    body |-> <<[type |-> "NODE_RETURN", line |-> 1,
                                expr |-> Member(ThisRef, "f")]>>]>>]

NextObj ==
    \/ cstack = <<>> /\ ~table_has(classes, "C") /\ Stmt(ClassC)
    \/ /\ cstack = <<>>
       /\ ~interp_get_var(Machine, "a").found
       /\ Len(heap) < MaxObjects
       /\ NewStmt([form |-> "new", line |-> 1, name |-> "a", class_name |-> "C",
                   args |-> <<NumLit(1)>>])
    \/ Stmt(Let("b", VarRef("a")))
    \/ /\ Len(heap) < MaxObjects
       /\ Stmt(Let("o", [type |-> "NODE_OBJECT", line |-> 1, keys |-> <<"f">>,
                         values |-> <<NumLit(1)>>]))
    \/ Stmt(Let("arr", [type |-> "NODE_ARRAY", line |-> 1,
                        elements |-> <<NumLit(1), NumLit(2)>>]))
    \/ \E i \in 0..1 :
          Stmt([form |-> "index_assign", line |-> 1, obj |-> VarRef("arr"),
                index |-> NumLit(i), value |-> NumLit(9)])
    \/ Stmt([form |-> "member_assign", line |-> 1, obj |-> ThisRef, key |-> "f",
             value |-> VarRef("v")])
    \/ \E x \in {"a", "b"}, n \in 1..MaxValue :
          /\ Len(cstack) < MaxStack
          /\ CallStmt(Call(method_name("set"), <<VarRef(x), NumLit(n)>>))
    \/ \E x \in {"a", "o"}, f \in {"has", "length"} :
          Stmt([form |-> "print", line |-> 1,
                expr |-> FuncCall(method_name(f), <<VarRef(x), StrLit("f")>>)])
    \/ ExitCall
    \/ Finish

SpecObj == Init /\ [][NextObj]_vars

(***************************************************************************)
(* Objects and arrays: C4, C5, C6 (under SpecObj).                         *)
(***************************************************************************)
\* The entries of the Table a variable's object handle points at.
Fields(x) == heap[interp_get_var(Machine, x).v.ref].entries

\* x holds an instance of a class that defines method f.
InstanceWith(x, f) ==
    /\ "__class__" \in DOMAIN Fields(x)
    /\ Fields(x)["__class__"].s \in DOMAIN classes
    /\ f \in DOMAIN classes[Fields(x)["__class__"].s]

\* C4: recv.m(args) runs the class's m, with recv as this, when recv is an
\* instance of a class defining m, whether or not a built-in m exists; the
\* built-in m runs only otherwise.  Here print recv.has("f") prints field
\* f of recv (what C's has returns) for an instance of C, and whether recv
\* has a key f (the built-in) for a plain object; print recv.length()
\* prints the built-in's 0, C defining no length.
C4_ClassMethodFirst ==
    [][(last'.stmt.form = "print" /\ status' = "run") =>
         LET recv == last'.stmt.expr.args[1].var_name
             f == last'.stmt.expr.name.id
         IN  out' = << IF InstanceWith(recv, f)
                       THEN IF "f" \in DOMAIN Fields(recv)
                            THEN val_to_string(Fields(recv)["f"]) ELSE "null"
                       ELSE IF f = "length" THEN "0"
                       ELSE IF "f" \in DOMAIN Fields(recv) THEN "true" ELSE "false" >>]_vars

\* a.has("f") has just printed the 2 that a.set(2) stored in a's field f.
C4_Witness ==
    /\ last.stmt.form = "print"
    /\ last.stmt.expr = FuncCall(method_name("has"), <<VarRef("a"), StrLit("f")>>)
    /\ status = "run"
    /\ InstanceWith("a", "has")
    /\ out = <<"2">>

\* The value of field f in the Table at ref of heap h, null when absent.
FieldF(h, ref) ==
    IF "f" \in DOMAIN h[ref].entries THEN h[ref].entries["f"] ELSE val_null

\* C5: after this.f = v has run in a method, reading field f through a or
\* through b (bound by let b = a) yields v; after it has run in the
\* constructor of new C(..), the instance under construction has f = v, and
\* the variable the instance is then assigned to reads the instance's f.
C5_ObjectsShared ==
    [][/\ (last'.stmt.form = "member_assign" /\ ~this_obj.null /\ status' = "run") =>
            /\ \A x \in {"a", "b"} :
                  interp_get_var(Machine, x).found =>
                     eval_node(Machine', Member(VarRef(x), "f")).v
                        = interp_get_var(Machine, "v").v
            /\ Top.via = "new" =>
                  FieldF(heap', Top.instance.ref) = interp_get_var(Machine, "v").v
       /\ (last'.stmt = [form |-> "end", kind |-> "call"] /\ Top.via = "new"
             /\ status' = "run") =>
            eval_node(Machine', Member(VarRef("a"), "f")).v
               = FieldF(heap, Top.instance.ref)]_vars

\* this.f = v has just run in set, called through b, and a.f reads v.
C5_Witness ==
    /\ last.stmt.form = "member_assign"
    /\ status = "run"
    /\ Len(cstack) = 1
    /\ Top.via = "method"
    /\ Top.args[1] = interp_get_var(Machine, "b").v
    /\ interp_get_var(Machine, "a").found
    /\ eval_node(Machine, Member(VarRef("a"), "f")).v = val_number(2)

\* new C(1) has returned from a constructor that ran this.f = v, and a.f
\* reads 1.
C5_WitnessNew ==
    /\ last.stmt = [form |-> "end", kind |-> "call"]
    /\ status = "run"
    /\ cstack = <<>>
    /\ ~interp_get_var(Machine, "b").found
    /\ FieldF(heap, interp_get_var(Machine, "a").v.ref) = val_number(1)

\* C6: after arr[i] = v, for 0 <= i < len(arr), arr[i] yields v.
C6_IndexAssignReadBack ==
    [][(/\ last'.stmt.form = "index_assign"
        /\ status' = "run"
        /\ interp_get_var(Machine, "arr").found
        /\ last'.stmt.index.number < Len(interp_get_var(Machine, "arr").v.items))
         => eval_node(Machine', Index(VarRef("arr"), last'.stmt.index)).v
              = val_number(last'.stmt.value.number)]_vars

(***************************************************************************)
(* Programs that nest calls of a function f and blocks without end: f's    *)
(* body calls f directly, or from inside an if or else branch, a loop or   *)
(* a try.  The nesting repeats with period two; its two outermost blocks   *)
(* are opened once.                                                        *)
(***************************************************************************)
\* A block of this kind may be opened here: it continues the pattern.
Chain(kind) ==
    /\ status = "run"
    /\ IF Len(cstack) < 2 THEN last.stmt.form # "end"
       ELSE cstack[Len(cstack) - 1].kind = kind

NextDepth ==
    \/ cstack = <<>> /\ ~table_has(functions, "f") /\ Stmt(Fn("f", <<>>, <<>>, TRUE))
    \/ Chain("call") /\ table_has(functions, "f") /\ CallStmt(Call(plain_name("f"), <<>>))
    \/ \E src \in {IfTrue, [IfTrue EXCEPT !.cond = BoolLit(FALSE), !.has_else = TRUE]} :
          Chain("if") /\ EnterIf(src)
    \/ /\ Chain("for")
       /\ EnterFor([form |-> "for", line |-> 1, var |-> "i",
                    iterable |-> [type |-> "NODE_ARRAY", line |-> 1,
                                  elements |-> <<NumLit(1)>>]])
    \/ Chain("try") /\ EnterTry([form |-> "try", line |-> 1, catch_var |-> "e"])
    \/ ExitCall
    \/ ExitIf
    \/ ExitFor
    \/ ExitTry
    \/ Finish

SpecDepth == Init /\ [][NextDepth]_vars

(***************************************************************************)
(* Nesting depth: C9 (under SpecDepth).                                    *)
(***************************************************************************)
\* The calls entered and not yet left.
ActiveCalls == Cardinality({k \in 1..Len(cstack) : cstack[k].kind = "call"})

\* The step raises the runtime error text, reported without a line (at = "")
\* or with one: to the innermost try when one is active, else on the error
\* stream of a process that ends with status 1.
Reports(text, at) ==
    /\ last'.raised
    /\ IF try_stack = <<>>
       THEN /\ status' = "exit"
            /\ exit_code' = 1
            /\ err_stream' = Append(err_stream, "jit runtime error"
                                      \o (IF at = "" THEN "" ELSE " " \o at) \o ": " \o text)
       ELSE /\ status' = "run"
            /\ exception_msg' = [null |-> FALSE,
                                 s |-> (IF at = "" THEN "" ELSE at \o " ") \o text]

Operands ==
    {BoolLit(TRUE), BoolLit(FALSE), NumLit(0), NumLit(1), StrLit(""), StrLit("x"),
     [type |-> "NODE_NULL", line |-> 1]}

\* s("a", l) op s("b", r)
Tagged(op, l, r) ==
    Binary(op, FuncCall(plain_name("s"), <<StrLit("a"), l>>),
               FuncCall(plain_name("s"), <<StrLit("b"), r>>))

NextExpr ==
    \/ /\ ~table_has(functions, "s")
       /\ Stmt(Fn("s", <<"t", "v">>,
                   <<[type |-> "NODE_PRINT", line |-> 1, expr |-> VarRef("t")],
                     [type |-> "NODE_RETURN", line |-> 1, expr |-> VarRef("v")]>>,
                   FALSE))
    \/ \E op \in {"TOKEN_AND", "TOKEN_OR"}, l \in Operands, r \in {NumLit(0), StrLit("x")} :
          /\ table_has(functions, "s")
          /\ \/ Stmt([form |-> "print", line |-> 1, expr |-> Tagged(op, l, r)])
             \/ Stmt(Let("x", Tagged(op, l, r)))
    \/ Finish

SpecExpr == Init /\ [][NextExpr]_vars

(***************************************************************************)
(* Short-circuit evaluation: C10 (under SpecExpr).                         *)
(***************************************************************************)
\* The truth value the language gives the value of a literal operand.
Truthy(lit) ==
    CASE lit.type = "NODE_BOOL" -> lit.boolean
      [] lit.type = "NODE_NUMBER" -> lit.number # 0
      [] lit.type = "NODE_STRING" -> lit.str # ""
      [] lit.type = "NODE_NULL" -> FALSE

\* The tags printed while the statement of the last step evaluated its
\* expression (a print statement's own output, which comes last, left out).
Effects == IF last.stmt.form = "print" THEN SubSeq(out, 1, Len(out) - 1) ELSE out

\* C10: in a and b with a falsy, and in a or b with a truthy, b is not
\* evaluated: only a's tag is printed.  Otherwise b is evaluated exactly
\* once, after a: a's tag, then b's, and nothing more.
C10_ShortCircuit ==
    (last.stmt.form \in {"print", "let"} /\ status = "run") =>
       LET e == IF last.stmt.form = "print" THEN last.stmt.expr ELSE last.stmt.value
           decisive == IF e.op = "TOKEN_AND" THEN ~Truthy(e.left.args[2])
                       ELSE Truthy(e.left.args[2])
       IN  Effects = IF decisive THEN <<"a">> ELSE <<"a", "b">>

\* 0 and b, and "x" or b, have run: b's tag was not printed.
C10_Witness ==
    /\ last.stmt.form = "let"
    /\ status = "run"
    /\ last.stmt.value \in {Tagged("TOKEN_AND", NumLit(0), StrLit("x")),
                            Tagged("TOKEN_OR", StrLit("x"), StrLit("x"))}
    /\ out = <<"a">>

(***************************************************************************)
(* The value of and / or: C11 (under SpecExpr).                            *)
(***************************************************************************)
\* The value a literal operand denotes.
LitValue(lit) ==
    CASE lit.type = "NODE_BOOL" -> [type |-> "bool", b |-> lit.boolean]
      [] lit.type = "NODE_NUMBER" -> [type |-> "number", n |-> lit.number]
      [] lit.type = "NODE_STRING" -> [type |-> "string", s |-> lit.str]
      [] lit.type = "NODE_NULL" -> [type |-> "null"]

\* C11: a and b is the value of a itself when a is falsy and else the value
\* of b itself; a or b is the value of a itself when a is truthy and else
\* the value of b itself.  Here let x = (a op b) has just bound x.
C11_OperandValuesReturned ==
    (last.stmt.form = "let" /\ status = "run") =>
       LET e == last.stmt.value
           a == e.left.args[2]
           b == e.right.args[2]
       IN  scopes[1]["x"] = LitValue(IF Truthy(a) = (e.op = "TOKEN_OR") THEN a ELSE b)

(***************************************************************************)
(* Programs that bind x to a / b or a % b, for integer literals a and b,   *)
(* among them 0, a negated literal and one beyond the range of long.       *)
(***************************************************************************)
NextNum ==
    \/ \E op \in {"TOKEN_DIVIDE", "TOKEN_MODULO"},
          l, r \in {NumLit(0), NumLit(2), NumLit(3), NumLit(7), NumLit(10),
                    Unary("TOKEN_MINUS", NumLit(7)), NumLit(Pow2(LongBits - 1))},
          ub \in {0 - Pow2(LongBits - 1), 0} :
          Stmt(Let("x", [type |-> "NODE_BINARY", line |-> 1, op |-> op, left |-> l,
                         right |-> r, ub_long |-> ub]))
    \/ Finish

SpecNum == Init /\ [][NextNum]_vars

(***************************************************************************)
(* Division: C12 (under SpecNum).                                          *)
(***************************************************************************)
\* The integer an operand of NextNum denotes.
IntOf(e) == IF e.type = "NODE_UNARY" THEN 0 - e.operand.number ELSE e.number

\* The quotient of a by b # 0, truncated toward zero.
Quotient(a, b) ==
    IF a >= 0 /\ b > 0 THEN a \div b
    ELSE IF a < 0 /\ b < 0 THEN (0 - a) \div (0 - b)
    ELSE IF a < 0 THEN 0 - ((0 - a) \div b)
    ELSE 0 - (a \div (0 - b))

\* C12: for integers a and b # 0, a / b is the quotient truncated toward
\* zero; for b = 0, a / b and a % b raise a runtime error and yield no
\* value (here: the process ends with status 1 and x is not bound anew).
C12_TruncatedQuotient ==
    last.stmt.form = "let" =>
       LET a == IntOf(last.stmt.value.left)
           b == IntOf(last.stmt.value.right)
       IN  IF b = 0
           THEN last.raised /\ status = "exit" /\ exit_code = 1
           ELSE /\ ~last.raised
                /\ last.stmt.value.op = "TOKEN_DIVIDE" =>
                      scopes[1]["x"] = [type |-> "number", n |-> Quotient(a, b)]

(***************************************************************************)
(* The lexer.  A source text is a sequence of characters (one-character    *)
(* strings); reading past its end gives "", the NUL.  A Lexer is           *)
(* [source, pos, line, col, tokens, error]: pos counts from 1, and error   *)
(* is the line written to stderr by the exit(1) that ended the process     *)
(* ("" while there was none).                                              *)
(***************************************************************************)
isdigit == {"0", "1", "2", "3", "4", "5", "6", "7", "8", "9"}

isalpha ==
    {"a", "b", "c", "d", "e", "f", "g", "h", "i", "j", "k", "l", "m", "n", "o",
     "p", "q", "r", "s", "t", "u", "v", "w", "x", "y", "z", "A", "B", "C", "D",
     "E", "F", "G", "H", "I", "J", "K", "L", "M", "N", "O", "P", "Q", "R", "S",
     "T", "U", "V", "W", "X", "Y", "Z"}

lexer_init(source) ==
    [source |-> source, pos |-> 1, line |-> 1, col |-> 1, tokens |-> <<>>,
     error |-> ""]

\* val is "" where the code passes NULL, num a number value.
add_token(lex, type, val, num, line, col) ==
    [lex EXCEPT !.tokens = Append(@, [type |-> type, value |-> val, num_value |-> num,
                                      line |-> line, col |-> col])]

peek(lex, offset) ==
    IF lex.pos + offset <= Len(lex.source) THEN lex.source[lex.pos + offset] ELSE ""

advance(lex) ==
    IF lex.pos > Len(lex.source) THEN lex
    ELSE [lex EXCEPT !.pos = @ + 1,
                     !.line = IF peek(lex, 0) = "\n" THEN @ + 1 ELSE @,
                     !.col = IF peek(lex, 0) = "\n" THEN 1 ELSE @ + 1]

RECURSIVE skip_comment(_)
skip_comment(lex) ==
    IF lex.pos <= Len(lex.source) /\ peek(lex, 0) # "\n" THEN skip_comment(advance(lex))
    ELSE lex

\* strtod stopping at the point, as strtol would.
strtod_integer(buf) ==
    LET RECURSIVE scan(_, _)
        digit(c) == CHOOSE d \in 0..9 : Digit(d) = c
        scan(i, num) ==
            IF i > Len(buf) \/ buf[i] = "." THEN val_number(num)
            ELSE scan(i + 1, 10 * num + digit(buf[i]))
    IN  scan(1, 0)

\* strtod(buf, NULL) for the digits, and the fraction if any, read_number
\* collects: the number value of the decimal.
strtod(buf) ==
    LET RECURSIVE scan(_, _, _, _)
        digit(c) == CHOOSE d \in 0..9 : Digit(d) = c
        \* num / den is the value of buf[1..i-1]
        scan(i, num, den, frac) ==
            IF i > Len(buf) THEN val_double(num, den)
            ELSE IF buf[i] = "." THEN scan(i + 1, num, den, TRUE)
            ELSE scan(i + 1, 10 * num + digit(buf[i]), IF frac THEN 10 * den ELSE den, frac)
    IN  scan(1, 0, 1, FALSE)

RECURSIVE read_while(_, _, _)
\* The loops of read_number and read_identifier: characters of class are
\* taken into buf while it holds fewer than max of them.  r is [lex, buf,
\* text]: the Lexer, buf as characters and as a C string.
read_while(r, class, max) ==
    IF peek(r.lex, 0) \in class /\ Len(r.buf) < max
    THEN read_while([lex |-> advance(r.lex), buf |-> Append(r.buf, peek(r.lex, 0)),
                     text |-> r.text \o peek(r.lex, 0)], class, max)
    ELSE r

read_number(lex) ==
    With(read_while([lex |-> lex, buf |-> <<>>, text |-> ""], isdigit, 62),
         LAMBDA a :
           With(IF peek(a.lex, 0) = "." /\ peek(a.lex, 1) \in isdigit
                THEN read_while([lex |-> advance(a.lex), buf |-> Append(a.buf, "."),
                                 text |-> a.text \o "."], isdigit, 62)
                ELSE a,
                LAMBDA b : add_token(b.lex, "TOKEN_NUMBER", b.text, strtod(b.buf),
                                     lex.line, lex.col)))

check_keyword(word) ==
    CASE word = "let" -> "TOKEN_LET"
      [] word = "if" -> "TOKEN_IF"
      [] word = "else" -> "TOKEN_ELSE"
      [] word = "while" -> "TOKEN_WHILE"
      [] word = "for" -> "TOKEN_FOR"
      [] word = "in" -> "TOKEN_IN"
      [] word = "print" -> "TOKEN_PRINT"
      [] word = "fn" -> "TOKEN_FN"
      [] word = "return" -> "TOKEN_RETURN"
      [] word = "break" -> "TOKEN_BREAK"
      [] word = "continue" -> "TOKEN_CONTINUE"
      [] word = "import" -> "TOKEN_IMPORT"
      [] word = "try" -> "TOKEN_TRY"
      [] word = "catch" -> "TOKEN_CATCH"
      [] word = "throw" -> "TOKEN_THROW"
      [] word = "class" -> "TOKEN_CLASS"
      [] word = "new" -> "TOKEN_NEW"
      [] word = "this" -> "TOKEN_THIS"
      [] word = "true" -> "TOKEN_TRUE"
      [] word = "false" -> "TOKEN_FALSE"
      [] word = "null" -> "TOKEN_NULL"
      [] word = "and" -> "TOKEN_AND"
      [] word = "or" -> "TOKEN_OR"
      [] word = "not" -> "TOKEN_NOT"
      [] word = "dream" -> "TOKEN_FN"
      [] word = "archetype" -> "TOKEN_CLASS"
      [] word = "project" -> "TOKEN_PRINT"
      [] word = "integrate" -> "TOKEN_IMPORT"
      [] word = "manifest" -> "TOKEN_RETURN"
      [] word = "unconscious" -> "TOKEN_NULL"
      [] word = "Self" -> "TOKEN_THIS"
      [] word = "emerge" -> "TOKEN_NEW"
      [] word = "perceive" -> "TOKEN_LET"
      [] word = "confront" -> "TOKEN_TRY"
      [] word = "embrace" -> "TOKEN_CATCH"
      [] word = "reject" -> "TOKEN_THROW"
      [] word = "individuation" -> "TOKEN_FN"
      [] OTHER -> "TOKEN_IDENTIFIER"

\* read_identifier with a buffer of 8 characters.
read_identifier_short(lex) ==
    With(read_while([lex |-> lex, buf |-> <<>>, text |-> ""],
                    isalpha \cup isdigit \cup {"_"}, 7),
         LAMBDA a : add_token(a.lex, check_keyword(a.text), a.text, val_number(0),
                              lex.line, lex.col))

read_identifier(lex) ==
    With(read_while([lex |-> lex, buf |-> <<>>, text |-> ""],
                    isalpha \cup isdigit \cup {"_"}, 254),
         LAMBDA a : add_token(a.lex, check_keyword(a.text), a.text, val_number(0),
                              lex.line, lex.col))

RECURSIVE collect_expr(_, _, _)
\* The loop of read_string_inner that collects the text of a ${...} region
\* up to its matching brace.
collect_expr(lex, depth, expr) ==
    IF lex.pos > Len(lex.source) \/ depth = 0 THEN [lex |-> lex, expr |-> expr]
    ELSE IF peek(lex, 0) = "}" /\ depth = 1 THEN [lex |-> advance(lex), expr |-> expr]
    ELSE collect_expr(advance(lex),
                      IF peek(lex, 0) = "{" THEN depth + 1
                      ELSE IF peek(lex, 0) = "}" THEN depth - 1 ELSE depth,
                      Append(expr, peek(lex, 0)))

RECURSIVE lexer_tokenize(_)
RECURSIVE read_string_inner(_, _, _, _, _)
\* read_string_inner(lex, sline, scol) with its locals: buf is the literal
\* run collected so far, has_interp says that TOKEN_INTERP_BEGIN is out.
read_string_inner(lex, sline, scol, buf, has_interp) ==
    IF lex.error # "" THEN lex
    ELSE IF lex.pos <= Len(lex.source) /\ peek(lex, 0) # "\""
    THEN IF peek(lex, 0) = "\\"
         THEN IF peek(lex, 1) = ""
              THEN read_string_inner(advance(lex), sline, scol, buf, has_interp)
              ELSE read_string_inner(advance(advance(lex)), sline, scol,
                                     buf \o (CASE peek(lex, 1) = "n" -> "\n"
                                               [] peek(lex, 1) = "t" -> "\t"
                                               [] OTHER -> peek(lex, 1)),
                                     has_interp)
         ELSE IF peek(lex, 0) = "$" /\ peek(lex, 1) = "{"
         THEN With(IF has_interp THEN lex
                   ELSE add_token(lex, "TOKEN_INTERP_BEGIN", "", val_number(0), sline, scol),
                   LAMBDA l1 :
              With(IF buf # ""
                   THEN add_token(l1, "TOKEN_STRING", buf, val_number(0), lex.line, lex.col)
                   ELSE l1,
                   LAMBDA l2 :
              With(collect_expr(advance(advance(l2)), 1, <<>>),
                   LAMBDA c :
              With(lexer_tokenize(lexer_init(c.expr)),
                   LAMBDA sub :
                     \* the tokens of the region up to its TOKEN_EOF, at the
                     \* position of the string
                     read_string_inner(
                       [c.lex EXCEPT
                          !.error = sub.error,
                          !.tokens = @ \o [i \in 1..(Len(sub.tokens) - 1) |->
                                             [sub.tokens[i] EXCEPT !.line = sline,
                                                                   !.col = scol]]],
                       sline, scol, "", TRUE)))))
         ELSE read_string_inner(advance(lex), sline, scol, buf \o peek(lex, 0),
                                has_interp)
    ELSE With(advance(lex),  \* the closing quote, if there is one
              LAMBDA l1 :
                IF has_interp
                THEN add_token(IF buf # ""
                               THEN add_token(l1, "TOKEN_STRING", buf, val_number(0),
                                              l1.line, l1.col)
                               ELSE l1,
                               "TOKEN_INTERP_END", "", val_number(0), l1.line, l1.col)
                ELSE add_token(l1, "TOKEN_STRING", buf, val_number(0), sline, scol))

\* lexer_tokenize from the state lex on (the rest of its outer loop).
lexer_tokenize(lex) ==
    LET ch == peek(lex, 0)
        assign_ops == ("=" :> <<"TOKEN_ASSIGN", "TOKEN_EQ">>)
                      @@ (">" :> <<"TOKEN_GT", "TOKEN_GTE">>)
                      @@ ("<" :> <<"TOKEN_LT", "TOKEN_LTE">>)
                      @@ ("+" :> <<"TOKEN_PLUS", "TOKEN_PLUS_ASSIGN">>)
                      @@ ("-" :> <<"TOKEN_MINUS", "TOKEN_MINUS_ASSIGN">>)
                      @@ ("*" :> <<"TOKEN_MULTIPLY", "TOKEN_MULTIPLY_ASSIGN">>)
                      @@ ("/" :> <<"TOKEN_DIVIDE", "TOKEN_DIVIDE_ASSIGN">>)
        single == ("%" :> "TOKEN_MODULO") @@ ("(" :> "TOKEN_LPAREN")
                  @@ (")" :> "TOKEN_RPAREN") @@ ("{" :> "TOKEN_LBRACE")
                  @@ ("}" :> "TOKEN_RBRACE") @@ ("[" :> "TOKEN_LBRACKET")
                  @@ ("]" :> "TOKEN_RBRACKET") @@ (";" :> "TOKEN_SEMICOLON")
                  @@ ("," :> "TOKEN_COMMA") @@ (":" :> "TOKEN_COLON")
                  @@ ("." :> "TOKEN_DOT") @@ ("?" :> "TOKEN_QUESTION")
        unexpected == "Line " \o FormatLong(lex.line) \o ":" \o FormatLong(lex.col)
                      \o " - Unexpected character: '" \o ch \o "'"
        comment == ch = "#" \/ (ch = "/" /\ peek(lex, 1) = "/")
    IN  CASE lex.error # "" -> lex
          [] lex.error = "" /\ ch \in {" ", "\t", "\n", "\r"} ->  \* skip_whitespace
               lexer_tokenize(advance(lex))
          [] lex.error = "" /\ comment -> lexer_tokenize(skip_comment(lex))
          [] lex.error = "" /\ ch = "" ->
               add_token(lex, "TOKEN_EOF", "", val_number(0), lex.line, lex.col)
          [] lex.error = "" /\ ch \in isdigit -> lexer_tokenize(read_number(lex))
          [] lex.error = "" /\ ch = "\"" ->
               lexer_tokenize(read_string_inner(advance(lex), lex.line, lex.col, "", FALSE))
          [] lex.error = "" /\ ch \in isalpha \cup {"_"} ->
               lexer_tokenize(read_identifier(lex))
          [] lex.error = "" /\ ch \in DOMAIN assign_ops /\ ~comment ->
               IF peek(lex, 1) = "="
               THEN lexer_tokenize(add_token(advance(advance(lex)), assign_ops[ch][2],
                                             ch \o "=", val_number(0), lex.line, lex.col))
               ELSE lexer_tokenize(add_token(advance(lex), assign_ops[ch][1], ch,
                                             val_number(0), lex.line, lex.col))
          [] lex.error = "" /\ ch = "!" /\ peek(lex, 1) = "=" ->
               lexer_tokenize(add_token(advance(advance(lex)), "TOKEN_NEQ", "!=",
                                        val_number(0), lex.line, lex.col))
          [] lex.error = "" /\ ch \in DOMAIN single ->
               lexer_tokenize(add_token(advance(lex), single[ch], ch, val_number(0),
                                        lex.line, lex.col))
          [] OTHER -> [advance(lex) EXCEPT !.error = unexpected]

(***************************************************************************)
(* The parser.  A Parser is [tokens, current, error, ub_long]: current     *)
(* counts from 1, error is the line parser_error wrote before exit(1) (""  *)
(* while there was none), and ub_long is the outcome of the undefined      *)
(* conversions of the divisions parsed.  A parsing function gives [p,      *)
(* node]: the Parser it leaves and the node it built.                      *)
(***************************************************************************)
parser_init(tokens, ub) ==
    [tokens |-> tokens, current |-> 1, error |-> "", ub_long |-> ub]

\* Nothing matches once the process has exited.
match(p, t) ==
    p.error = "" /\ p.current <= Len(p.tokens) /\ p.tokens[p.current].type = t

cur(p) ==
    IF p.current <= Len(p.tokens) THEN p.tokens[p.current]
    ELSE [type |-> "", value |-> "", num_value |-> val_number(0), line |-> 0, col |-> 0]

advance_tok(p) == IF p.current > Len(p.tokens) THEN p ELSE [p EXCEPT !.current = @ + 1]

\* The token kind is written by its enumerator.
parser_error(p, msg) ==
    IF p.error # "" THEN p
    ELSE IF p.current <= Len(p.tokens)
    THEN [p EXCEPT !.error = "Parse error at line " \o FormatLong(cur(p).line) \o ":"
                             \o FormatLong(cur(p).col) \o " - " \o msg
                             \o " (got " \o cur(p).type \o ")"]
    ELSE [p EXCEPT !.error = "Parse error: unexpected end of file - " \o msg]

consume(p, t, msg) == IF match(p, t) THEN advance_tok(p) ELSE parser_error(p, msg)

Node(p, node) == [p |-> p, node |-> node]

RECURSIVE parse_expression(_)
RECURSIVE parse_primary(_)
RECURSIVE parse_list(_, _)
RECURSIVE parse_fields(_, _, _)
RECURSIVE parse_parts(_, _)
RECURSIVE parse_postfix(_)
RECURSIVE parse_binary(_, _)

\* The expressions of an argument or element list up to the closing token
\* close, which is left to the caller: none when close comes first, else
\* one and one more after each comma.  r holds the Parser and the list so
\* far, << >> at the start.
parse_list(r, close) ==
    IF r.node = <<>> /\ match(r.p, close) THEN r
    ELSE IF r.node = <<>> \/ match(r.p, "TOKEN_COMMA")
    THEN With(parse_expression(IF r.node = <<>> THEN r.p ELSE advance_tok(r.p)),
              LAMBDA e : parse_list(Node(e.p, Append(r.node, e.node)), close))
    ELSE r

\* The fields of an object literal after `{`: name : expression, comma
\* separated, a trailing comma allowed.
parse_fields(p, keys, values) ==
    IF match(p, "TOKEN_RBRACE") THEN Node(p, [keys |-> keys, values |-> values])
    ELSE With(consume(consume(p, "TOKEN_IDENTIFIER", "Expected property name"),
                      "TOKEN_COLON", "Expected ':' after property name"),
              LAMBDA p1 :
                With(parse_expression(p1),
                     LAMBDA v :
                       IF match(v.p, "TOKEN_COMMA")
                       THEN parse_fields(advance_tok(v.p), Append(keys, cur(p).value),
                                         Append(values, v.node))
                       ELSE Node(v.p, [keys |-> Append(keys, cur(p).value),
                                       values |-> Append(values, v.node)])))

\* The parts of an interpolated string: one expression after another up to
\* TOKEN_INTERP_END.
parse_parts(p, parts) ==
    IF p.error # "" \/ match(p, "TOKEN_INTERP_END") \/ match(p, "TOKEN_EOF")
    THEN Node(p, parts)
    ELSE With(parse_expression(p),
              LAMBDA e : parse_parts(e.p, Append(parts, e.node)))

parse_primary(p) ==
    LET line == cur(p).line
        t == cur(p)
    IN  CASE match(p, "TOKEN_NOT") \/ match(p, "TOKEN_MINUS") ->
               With(parse_primary(advance_tok(p)),
                    LAMBDA e : Node(e.p, [type |-> "NODE_UNARY", line |-> line,
                                          op |-> t.type, operand |-> e.node]))
          [] match(p, "TOKEN_NUMBER") ->
               Node(advance_tok(p),
                    IF is_integral(t.num_value)
                    THEN [type |-> "NODE_NUMBER", line |-> line, number |-> t.num_value.n]
                    ELSE [type |-> "NODE_NUMBER", line |-> line,
                          num |-> t.num_value.num, den |-> t.num_value.den])
          [] match(p, "TOKEN_STRING") ->
               Node(advance_tok(p), [type |-> "NODE_STRING", line |-> line, str |-> t.value])
          [] match(p, "TOKEN_INTERP_BEGIN") ->
               With(parse_parts(advance_tok(p), <<>>),
                    LAMBDA r : Node(consume(r.p, "TOKEN_INTERP_END",
                                            "Expected end of string interpolation"),
                                    [type |-> "NODE_STRING_INTERP", line |-> line,
                                     parts |-> r.node]))
          [] match(p, "TOKEN_NULL") ->
               Node(advance_tok(p), [type |-> "NODE_NULL", line |-> line])
          [] match(p, "TOKEN_TRUE") \/ match(p, "TOKEN_FALSE") ->
               Node(advance_tok(p), [type |-> "NODE_BOOL", line |-> line,
                                     boolean |-> t.type = "TOKEN_TRUE"])
          [] match(p, "TOKEN_THIS") ->
               Node(advance_tok(p), [type |-> "NODE_THIS", line |-> line])
          [] match(p, "TOKEN_NEW") ->
               With(consume(advance_tok(p), "TOKEN_IDENTIFIER",
                            "Expected class name after 'new'"),
                    LAMBDA p1 :
                      With(parse_list(Node(consume(p1, "TOKEN_LPAREN",
                                                   "Expected '(' after class name"), <<>>),
                                      "TOKEN_RPAREN"),
                           LAMBDA a : Node(consume(a.p, "TOKEN_RPAREN",
                                                   "Expected ')' after arguments"),
                                           [type |-> "NODE_NEW", line |-> line,
                                            class_name |-> cur(advance_tok(p)).value,
                                            args |-> a.node])))
          [] match(p, "TOKEN_IDENTIFIER") ->
               IF match(advance_tok(p), "TOKEN_LPAREN")
               THEN With(parse_list(Node(advance_tok(advance_tok(p)), <<>>), "TOKEN_RPAREN"),
                         LAMBDA a : Node(consume(a.p, "TOKEN_RPAREN",
                                                 "Expected ')' after arguments"),
                                         [type |-> "NODE_FUNC_CALL", line |-> line,
                                          name |-> plain_name(t.value), args |-> a.node]))
               ELSE Node(advance_tok(p),
                         [type |-> "NODE_VARIABLE", line |-> line, var_name |-> t.value])
          [] match(p, "TOKEN_LBRACKET") ->
               With(parse_list(Node(advance_tok(p), <<>>), "TOKEN_RBRACKET"),
                    LAMBDA a : Node(consume(a.p, "TOKEN_RBRACKET", "Expected ']'"),
                                    [type |-> "NODE_ARRAY", line |-> line,
                                     elements |-> a.node]))
          [] match(p, "TOKEN_LBRACE") ->
               With(parse_fields(advance_tok(p), <<>>, <<>>),
                    LAMBDA f : Node(consume(f.p, "TOKEN_RBRACE", "Expected '}'"),
                                    [type |-> "NODE_OBJECT", line |-> line,
                                     keys |-> f.node.keys, values |-> f.node.values]))
          [] match(p, "TOKEN_LPAREN") ->
               With(parse_expression(advance_tok(p)),
                    LAMBDA e : Node(consume(e.p, "TOKEN_RPAREN",
                                            "Expected ')' after expression"), e.node))
          [] OTHER ->
               Node(parser_error(p, "Expected expression"), [type |-> "NODE_NULL", line |-> 0])

\* parse_postfix after its call of parse_primary: r holds the Parser and
\* left.
parse_postfix(r) ==
    LET line == cur(r.p).line
    IN  IF match(r.p, "TOKEN_LBRACKET")
        THEN With(parse_expression(advance_tok(r.p)),
                  LAMBDA i : parse_postfix(Node(consume(i.p, "TOKEN_RBRACKET", "Expected ']'"),
                                               [type |-> "NODE_ARRAY_INDEX", line |-> line,
                                                array_expr |-> r.node, index |-> i.node])))
        ELSE IF match(r.p, "TOKEN_DOT")
        THEN IF ~match(advance_tok(r.p), "TOKEN_IDENTIFIER")
             THEN Node(parser_error(advance_tok(r.p), "Expected property name after '.'"),
                       r.node)
             ELSE With(advance_tok(advance_tok(r.p)),
                       LAMBDA p2 :
                         IF match(p2, "TOKEN_LPAREN")
                         THEN With(parse_list(Node(advance_tok(p2), <<>>), "TOKEN_RPAREN"),
                                   LAMBDA a :
                                     parse_postfix(
                                       Node(consume(a.p, "TOKEN_RPAREN",
                                                    "Expected ')' after arguments"),
                                            [type |-> "NODE_FUNC_CALL", line |-> line,
                                             name |-> method_name(cur(advance_tok(r.p)).value),
                                             args |-> <<r.node>> \o a.node])))
                         ELSE parse_postfix(
                                Node(p2, [type |-> "NODE_OBJ_ACCESS", line |-> line,
                                          obj |-> r.node,
                                          key |-> cur(advance_tok(r.p)).value])))
        ELSE r

RECURSIVE binary_loop(_, _)
\* The loops of parse_multiplication (level 1), parse_addition (2),
\* parse_comparison (3), parse_and (4) and parse_or (5) around the operand
\* r that parse_postfix gave: while the current token is an operator of a
\* level up to level, it and an operand of the level below its own join
\* left.
binary_loop(r, level) ==
    LET ops == <<{"TOKEN_MULTIPLY", "TOKEN_DIVIDE", "TOKEN_MODULO"},
                 {"TOKEN_PLUS", "TOKEN_MINUS"},
                 {"TOKEN_GT", "TOKEN_LT", "TOKEN_EQ", "TOKEN_NEQ", "TOKEN_GTE", "TOKEN_LTE"},
                 {"TOKEN_AND"},
                 {"TOKEN_OR"}>>
        own == {l \in 1..level : cur(r.p).type \in ops[l]}
    IN  IF r.p.error = "" /\ own # {}
        THEN With(parse_binary(advance_tok(r.p), (CHOOSE l \in own : TRUE) - 1),
                  LAMBDA right :
                    binary_loop(Node(right.p,
                                     [type |-> "NODE_BINARY", line |-> cur(r.p).line,
                                      op |-> cur(r.p).type, left |-> r.node,
                                      right |-> right.node, ub_long |-> r.p.ub_long]),
                                level))
        ELSE r

\* parse_postfix (level 0), parse_multiplication (1), parse_addition (2),
\* parse_comparison (3), parse_and (4), parse_or (5): each begins with the
\* level below it, down to parse_postfix, and then runs its loop.
parse_binary(p, level) == binary_loop(parse_postfix(parse_primary(p)), level)

\* parse_expression is parse_ternary.
parse_expression(p) ==
    With(parse_binary(p, 5),
         LAMBDA c :
           IF match(c.p, "TOKEN_QUESTION")
           THEN With(parse_expression(advance_tok(c.p)),
                     LAMBDA t :
                       With(parse_expression(consume(t.p, "TOKEN_COLON",
                                                  "Expected ':' in ternary expression")),
                            LAMBDA e : Node(e.p, [type |-> "NODE_TERNARY",
                                                  line |-> cur(c.p).line,
                                                  condition |-> c.node,
                                                  then_expr |-> t.node,
                                                  else_expr |-> e.node])))
           ELSE c)

optional_semicolon(p) == IF match(p, "TOKEN_SEMICOLON") THEN advance_tok(p) ELSE p

CompoundOps ==
    {"TOKEN_PLUS_ASSIGN", "TOKEN_MINUS_ASSIGN", "TOKEN_MULTIPLY_ASSIGN", "TOKEN_DIVIDE_ASSIGN"}

\* The node of a store into the target expr (obj.prop or arr[idx]), or of
\* a compound assignment on it: the node takes the target's children.
target_node(type, expr, op, val, line, ub) ==
    IF expr.type = "NODE_OBJ_ACCESS"
    THEN [type |-> type, line |-> line, obj |-> expr.obj, key |-> expr.key,
          key_expr |-> [type |-> "NODE_NULL"], is_bracket |-> FALSE,
          value |-> val, op |-> op, ub_long |-> ub]
    ELSE [type |-> type, line |-> line, obj |-> expr.array_expr, key |-> NoName,
          key_expr |-> expr.index, is_bracket |-> TRUE,
          value |-> val, op |-> op, ub_long |-> ub]

\* parse_statement after the expression e of an expression statement:
\* `= val` makes it a store, a compound operator a compound assignment.
parse_target(e, line) ==
    IF e.p.error # "" THEN e
    ELSE IF match(e.p, "TOKEN_ASSIGN") \/ cur(e.p).type \in CompoundOps
    THEN With(parse_expression(advance_tok(e.p)),
              LAMBDA v :
                IF e.node.type \in {"NODE_OBJ_ACCESS", "NODE_ARRAY_INDEX"}
                THEN Node(optional_semicolon(v.p),
                          target_node(IF match(e.p, "TOKEN_ASSIGN") THEN "NODE_OBJ_ASSIGN"
                                      ELSE "NODE_OBJ_COMPOUND_ASSIGN",
                                      e.node, cur(e.p).type, v.node, line, e.p.ub_long))
                ELSE IF match(e.p, "TOKEN_ASSIGN")
                THEN Node(parser_error(optional_semicolon(v.p), "Invalid assignment target"),
                          e.node)
                ELSE Node(optional_semicolon(
                            parser_error(optional_semicolon(v.p),
                                         "Invalid compound assignment target")),
                          e.node))
    ELSE Node(optional_semicolon(e.p), e.node)

RECURSIVE params_loop(_, _)
\* parse_params after a parameter name: the names that follow commas.
params_loop(p, names) ==
    IF match(p, "TOKEN_COMMA")
    THEN params_loop(consume(advance_tok(p), "TOKEN_IDENTIFIER", "Expected parameter name"),
                     Append(names, cur(advance_tok(p)).value))
    ELSE Node(consume(p, "TOKEN_RPAREN", "Expected ')' after parameters"), names)

\* parse_params, for parameters without default values.
parse_params(p) ==
    With(consume(p, "TOKEN_LPAREN", "Expected '(' after function name"),
         LAMBDA p1 :
           IF match(p1, "TOKEN_RPAREN") \/ p1.error # ""
           THEN Node(consume(p1, "TOKEN_RPAREN", "Expected ')' after parameters"), <<>>)
           ELSE params_loop(consume(p1, "TOKEN_IDENTIFIER", "Expected parameter name"),
                            <<cur(p1).value>>))

RECURSIVE parse_tokens(_)
RECURSIVE block_loop(_, _)
\* The loop of parse_block: statements up to the closing brace.
block_loop(p, body) ==
    IF p.error # "" \/ match(p, "TOKEN_RBRACE") \/ match(p, "TOKEN_EOF")
       \/ p.current > Len(p.tokens)
    THEN Node(consume(p, "TOKEN_RBRACE", "Expected '}'"), body)
    ELSE With(parse_tokens(p), LAMBDA s : block_loop(s.p, Append(body, s.node)))

parse_block(p) == block_loop(consume(p, "TOKEN_LBRACE", "Expected '{'"), <<>>)

\* parse_statement on tokens, for the statements a source text is made of
\* here: fn, return, let, print, import, assignment and compound
\* assignment to a name, and an expression, which may be the target of a
\* store.
parse_tokens(p) ==
    LET line == cur(p).line
    IN  IF match(p, "TOKEN_FN")
        THEN With(parse_params(consume(advance_tok(p), "TOKEN_IDENTIFIER",
                                       "Expected function name")),
                  LAMBDA ps :
                    With(parse_block(ps.p),
                         LAMBDA b : Node(b.p, [type |-> "NODE_FUNC_DEF", line |-> line,
                                               name |-> cur(advance_tok(p)).value,
                                               params |-> ps.node, body |-> b.node,
                                               open |-> FALSE])))
        ELSE IF match(p, "TOKEN_RETURN")
        THEN IF \E t \in {"TOKEN_SEMICOLON", "TOKEN_RBRACE", "TOKEN_EOF"} :
                   match(advance_tok(p), t)
             THEN Node(optional_semicolon(advance_tok(p)),
                       [type |-> "NODE_RETURN", line |-> line,
                        expr |-> [type |-> "NODE_NULL", line |-> line]])
             ELSE With(parse_expression(advance_tok(p)),
                       LAMBDA e : Node(optional_semicolon(e.p),
                                       [type |-> "NODE_RETURN", line |-> line,
                                        expr |-> e.node]))
        ELSE IF match(p, "TOKEN_IDENTIFIER") /\ cur(advance_tok(p)).type \in CompoundOps
        THEN With(parse_expression(advance_tok(advance_tok(p))),
                  LAMBDA v : Node(optional_semicolon(v.p),
                                  [type |-> "NODE_COMPOUND_ASSIGN", line |-> line,
                                   name |-> cur(p).value, op |-> cur(advance_tok(p)).type,
                                   value |-> v.node, ub_long |-> p.ub_long]))
        ELSE IF match(p, "TOKEN_LET")
           \/ (match(p, "TOKEN_IDENTIFIER") /\ match(advance_tok(p), "TOKEN_ASSIGN"))
        THEN With(IF match(p, "TOKEN_LET") THEN advance_tok(p) ELSE p,
                  LAMBDA p1 :
                    With(parse_expression(
                           consume(consume(p1, "TOKEN_IDENTIFIER", "Expected variable name"),
                                   "TOKEN_ASSIGN", "Expected '=' in assignment")),
                         LAMBDA v : Node(optional_semicolon(v.p),
                                         [type |-> "NODE_ASSIGN", line |-> line,
                                          name |-> cur(p1).value, value |-> v.node])))
        ELSE IF match(p, "TOKEN_PRINT")
        THEN With(parse_expression(advance_tok(p)),
                  LAMBDA e : Node(optional_semicolon(e.p),
                                  [type |-> "NODE_PRINT", line |-> line, expr |-> e.node]))
        ELSE IF match(p, "TOKEN_IMPORT")
        THEN With(consume(advance_tok(p), "TOKEN_STRING", "Expected string path after import"),
                  LAMBDA p1 : Node(optional_semicolon(p1),
                                   [type |-> "NODE_IMPORT", line |-> line,
                                    import_path |-> cur(advance_tok(p)).value]))
        ELSE With(parse_expression(p), LAMBDA e : parse_target(e, line))

RECURSIVE parser_parse(_, _)
\* parser_parse: the statements up to TOKEN_EOF (stmts is the list so far).
parser_parse(p, stmts) ==
    IF p.error # "" \/ match(p, "TOKEN_EOF") \/ p.current > Len(p.tokens)
    THEN Node(p, stmts)
    ELSE With(parse_tokens(p), LAMBDA s : parser_parse(s.p, Append(stmts, s.node)))

(***************************************************************************)
(* Running a source text.                                                  *)
(***************************************************************************)
RECURSIVE exec_stmts(_, _, _)
\* exec_stmts over statements that open no block.
exec_stmts(m, stmts, i) ==
    IF i > Len(stmts) \/ m.jumped \/ m.return_flag \/ m.break_flag \/ m.continue_flag
    THEN m
    ELSE exec_stmts(exec_stmt(m, stmts[i]), stmts, i + 1)

\* ast_free(program), as the interpreter sees it: the parameter and body
\* arrays of the program's function definitions are freed, and with them
\* those of every FuncDef made from one of the definitions.
ast_free(m, program) ==
    LET defs == {FuncDef(program[i]) : i \in {j \in DOMAIN program :
                                                program[j].type = "NODE_FUNC_DEF"}}
    IN  [m EXCEPT !.functions =
           [name \in DOMAIN m.functions |->
              IF m.functions[name] \in defs
              THEN [m.functions[name] EXCEPT !.freed = TRUE]
              ELSE m.functions[name]]]

\* interp_run(it, source); ub is the outcome of the undefined conversions
\* of its divisions.  An error of the lexer or the parser ends the process.
interp_run(m, source, ub) ==
    With(lexer_tokenize(lexer_init(source)),
         LAMBDA lex :
           IF lex.error # "" THEN die(m, lex.error, 1)
           ELSE With(parser_parse(parser_init(lex.tokens, ub), <<>>),
                     LAMBDA r : IF r.p.error # "" THEN die(m, r.p.error, 1)
                                ELSE Then(exec_stmts(m, r.node, 1),
                                          LAMBDA m1 : ast_free(m1, r.node))))

\* The source text is run in the interpreter (a file, or a line of the
\* read-eval-print loop made of statements).
Run(source, ub) ==
    /\ Running
    /\ cstack = <<>>
    /\ Done(interp_run(Machine, source, ub), [form |-> "source", line |-> 1, text |-> source])

(***************************************************************************)
(* Programs that divide numbers written as decimals.                       *)
(***************************************************************************)
\* print l op r, where l and r are numerals
DivideSource(l, op, r) == <<"p", "r", "i", "n", "t", " ">> \o l \o <<" ", op, " ">> \o r

\* print 10 / 3, print 10 % 3, print 10.0 / 4, a line each
DivisionProgram ==
    DivideSource(<<"1", "0">>, "/", <<"3">>) \o <<"\n">>
    \o DivideSource(<<"1", "0">>, "%", <<"3">>) \o <<"\n">>
    \o DivideSource(<<"1", "0", ".", "0">>, "/", <<"4">>) \o <<"\n">>

NextDec ==
    \/ \E l, r \in {<<"3">>, <<"4">>, <<"1", "0">>, <<"1", "0", ".", "0">>,
                    <<"7", ".", "5">>, <<"2", ".", "5">>, <<"0", ".", "5">>, <<"0">>},
          op \in {"/", "%"}, ub \in {0 - Pow2(LongBits - 1), 0} :
          Run(DivideSource(l, op, r), ub)
    \/ \E ub \in {0 - Pow2(LongBits - 1), 0} : Run(DivisionProgram, ub)
    \/ Finish

SpecDec == Init /\ [][NextDec]_vars

(***************************************************************************)
(* Decimal division: C13 (under SpecDec).                                  *)
(***************************************************************************)
\* C13 as stated: the program print 10 / 3, print 10 % 3, print 10.0 / 4
\* prints 3, then 1, then 2.5.
C13_DecimalQuotient ==
    (last.stmt.form = "source" /\ last.stmt.text = DivisionProgram)
      => out = <<"3", "1", "2.5">>

\* C13: the program print 10 / 3, print 10 % 3, print 10.0 / 4 prints 3,
\* then 1, then 2: a division of two numbers without a fractional part
\* truncates however they are written (10.0 / 4 is 2), and a division
\* with an operand that has one yields the true quotient (7.5 / 4 is
\* 1.875, 2.5 / 0.5 is 5).
C13_IntegerValuedQuotient ==
    last.stmt.form = "source" =>
       /\ last.stmt.text = DivisionProgram => out = <<"3", "1", "2">>
       /\ last.stmt.text = DivideSource(<<"1", "0", ".", "0">>, "/", <<"4">>)
             => out = <<"2">>
       /\ last.stmt.text = DivideSource(<<"7", ".", "5">>, "/", <<"4">>)
             => out = <<"1.875">>
       /\ last.stmt.text = DivideSource(<<"2", ".", "5">>, "/", <<"0", ".", "5">>)
             => out = <<"5">>

C13_Witness ==
    /\ last.stmt.form = "source"
    /\ last.stmt.text = DivisionProgram
    /\ out = <<"3", "1", "2">>

(***************************************************************************)
(* Programs that compare values: objects a and c of the same contents, b   *)
(* another handle on a's, an array r, and literals.                        *)
(***************************************************************************)
\* let x = e
LetSource(x, e) == <<"l", "e", "t", " ">> \o x \o <<" ", "=", " ">> \o e

\* print x op y
PrintSource(x, op, y) == <<"p", "r", "i", "n", "t", " ">> \o x \o <<" ">> \o op \o <<" ">> \o y

EqOperands ==
    {<<"a">>, <<"b">>, <<"c">>, <<"r">>, <<"1">>, <<"2">>, <<"n", "u", "l", "l">>,
     <<"t", "r", "u", "e">>, <<"\"", "a", "b", "\"">>}

NextEq ==
    \/ /\ heap = <<>>
       /\ Run(LetSource(<<"a">>, <<"{", "f", ":", " ", "1", "}">>) \o <<"\n">>
              \o LetSource(<<"b">>, <<"a">>) \o <<"\n">>
              \o LetSource(<<"c">>, <<"{", "f", ":", " ", "1", "}">>) \o <<"\n">>
              \o LetSource(<<"r">>, <<"[", "1", "]">>), 0)
    \/ \E x, y \in EqOperands, op \in {<<"=", "=">>, <<"!", "=">>} :
          Run(PrintSource(x, op, y), 0)
    \/ Finish

SpecEq == Init /\ [][NextEq]_vars

(***************************************************************************)
(* Equality: C14 (under SpecEq).                                           *)
(***************************************************************************)
\* The value an operand of EqOperands denotes.
Denote(x) ==
    CASE x = <<"1">> -> [type |-> "number", n |-> 1]
      [] x = <<"2">> -> [type |-> "number", n |-> 2]
      [] x = <<"n", "u", "l", "l">> -> [type |-> "null"]
      [] x = <<"t", "r", "u", "e">> -> [type |-> "bool", b |-> TRUE]
      [] x = <<"\"", "a", "b", "\"">> -> [type |-> "string", s |-> "ab"]
      [] OTHER -> scopes[1][x[1]]

\* Equality as C14 states it: by value for null, booleans, numbers and
\* strings, by identity for objects (the same map) and arrays (here: the
\* same variable).
SameValue(x, y) ==
    IF Denote(x).type # Denote(y).type THEN FALSE
    ELSE IF Denote(x).type = "object" THEN Denote(x).ref = Denote(y).ref
    ELSE IF Denote(x).type = "array" THEN x = y
    ELSE Denote(x) = Denote(y)

\* C14: x == y is true exactly when x and y are equal by value (null,
\* booleans, numbers, strings) or are the same object or array, and x != y
\* is its negation.  Here print x == y or print x != y has just run.
C14_EqualityByIdentity ==
    \A x, y \in EqOperands :
       (/\ status = "run"
        /\ ~last.raised
        /\ last.stmt.form = "source")
         => /\ last.stmt.text = PrintSource(x, <<"=", "=">>, y)
                 => out = <<IF SameValue(x, y) THEN "true" ELSE "false">>
            /\ last.stmt.text = PrintSource(x, <<"!", "=">>, y)
                 => out = <<IF SameValue(x, y) THEN "false" ELSE "true">>

(***************************************************************************)
(* Lexing alone: a source of one or two words, each a keyword, a Jungian   *)
(* word or a name.                                                         *)
(***************************************************************************)
\* lexer_init and lexer_tokenize on source, as the first step of
\* interp_run: the token kinds are kept in last, or the error that ended
\* the process.
Tokenize(source) ==
    /\ Running
    /\ With(lexer_tokenize(lexer_init(source)),
            LAMBDA lex :
              IF lex.error # ""
              THEN Done(die(Machine, lex.error, 1),
                        [form |-> "lex", line |-> 1, text |-> source, kinds |-> <<>>])
              ELSE Done(Machine,
                        [form |-> "lex", line |-> 1, text |-> source,
                         kinds |-> [i \in DOMAIN lex.tokens |-> lex.tokens[i].type]]))

\* The Jungian words the keyword table has, each with its keyword.
Aliases ==
    {<<<<"p", "e", "r", "c", "e", "i", "v", "e">>, <<"l", "e", "t">>>>,
     <<<<"d", "r", "e", "a", "m">>, <<"f", "n">>>>,
     <<<<"i", "n", "d", "i", "v", "i", "d", "u", "a", "t", "i", "o", "n">>, <<"f", "n">>>>,
     <<<<"a", "r", "c", "h", "e", "t", "y", "p", "e">>, <<"c", "l", "a", "s", "s">>>>,
     <<<<"c", "o", "n", "f", "r", "o", "n", "t">>, <<"t", "r", "y">>>>,
     <<<<"e", "m", "b", "r", "a", "c", "e">>, <<"c", "a", "t", "c", "h">>>>,
     <<<<"r", "e", "j", "e", "c", "t">>, <<"t", "h", "r", "o", "w">>>>,
     <<<<"p", "r", "o", "j", "e", "c", "t">>, <<"p", "r", "i", "n", "t">>>>,
     <<<<"m", "a", "n", "i", "f", "e", "s", "t">>, <<"r", "e", "t", "u", "r", "n">>>>,
     <<<<"u", "n", "c", "o", "n", "s", "c", "i", "o", "u", "s">>, <<"n", "u", "l", "l">>>>,
     <<<<"S", "e", "l", "f">>, <<"t", "h", "i", "s">>>>,
     <<<<"e", "m", "e", "r", "g", "e">>, <<"n", "e", "w">>>>,
     <<<<"i", "n", "t", "e", "g", "r", "a", "t", "e">>, <<"i", "m", "p", "o", "r", "t">>>>}

\* A word of the same family that the keyword table does not have.
Complex == <<"c", "o", "m", "p", "l", "e", "x">>

Words ==
    {a[1] : a \in Aliases} \cup {a[2] : a \in Aliases} \cup {Complex, <<"x">>}

NextLex ==
    \/ \E w \in Words : Tokenize(w)
    \/ \E w \in Words, c \in {<<"x">>, <<"l", "e", "t">>, <<"d", "r", "e", "a", "m">>} :
          Tokenize(w \o <<" ">> \o c) \/ Tokenize(c \o <<" ">> \o w)
    \/ Finish

SpecLex == Init /\ [][NextLex]_vars

(***************************************************************************)
(* Jungian aliases: C15 (under SpecLex).                                   *)
(***************************************************************************)
\* The token kinds of source.
KindsOf(source) ==
    LET tokens == lexer_tokenize(lexer_init(source)).tokens
    IN  [i \in DOMAIN tokens |-> tokens[i].type]

\* The source text has just been lexed, without an error.
Lexed(source) == last.stmt.form = "lex" /\ status = "run" /\ last.stmt.text = source

\* Replacing a keyword, alone or next to another word, by the word alias
\* leaves the token kinds unchanged.
SameKinds(alias, keyword) ==
    /\ Lexed(alias) => last.stmt.kinds = KindsOf(keyword)
    /\ \A c \in {<<"x">>, <<"l", "e", "t">>, <<"d", "r", "e", "a", "m">>} :
          /\ Lexed(alias \o <<" ">> \o c) => last.stmt.kinds = KindsOf(keyword \o <<" ">> \o c)
          /\ Lexed(c \o <<" ">> \o alias) => last.stmt.kinds = KindsOf(c \o <<" ">> \o keyword)

\* C15 as stated: every Jungian alias, complex for class among them, lexes
\* to the token kind of its keyword, so that replacing a keyword by an
\* alias leaves the sequence of token kinds unchanged.
C15_AliasesWithComplex ==
    \A a \in Aliases \cup {<<Complex, <<"c", "l", "a", "s", "s">>>>} : SameKinds(a[1], a[2])

\* C15: each of the thirteen Jungian aliases (perceive, dream,
\* individuation, archetype, confront, embrace, reject, project, manifest,
\* unconscious, Self, emerge, integrate) lexes to the token kind of its
\* keyword, so that replacing a keyword by an alias leaves the sequence of
\* token kinds unchanged; complex is no alias: it lexes as an identifier.
C15_AliasKinds ==
    /\ \A a \in Aliases : SameKinds(a[1], a[2])
    /\ Lexed(Complex) => last.stmt.kinds = <<"TOKEN_IDENTIFIER", "TOKEN_EOF">>

C15_Witness ==
    /\ Lexed(<<"x", " ", "i", "n", "d", "i", "v", "i", "d", "u", "a", "t", "i", "o", "n">>)
    /\ last.stmt.kinds = <<"TOKEN_IDENTIFIER", "TOKEN_FN", "TOKEN_EOF">>

(***************************************************************************)
(* Programs that print an interpolated string of one to three parts.       *)
(***************************************************************************)
MaxParts == 3

\* The parts a string is made of: how each is written, and its rendering.
\* A literal run, then regions that begin with a number, a unary minus, an
\* opening parenthesis and an opening bracket.
Parts ==
    {[src |-> <<"x">>, text |-> "x", region |-> FALSE],
     [src |-> <<"$", "{", "7", "}">>, text |-> "7", region |-> TRUE],
     [src |-> <<"$", "{", "-", "2", "}">>, text |-> "-2", region |-> TRUE],
     [src |-> <<"$", "{", "(", "3", ")", "}">>, text |-> "3", region |-> TRUE],
     [src |-> <<"$", "{", "[", "4", "]", "}">>, text |-> "[4]", region |-> TRUE]}

\* The strings of up to MaxParts parts in which no two literal runs touch.
PartSeqs ==
    {ps \in UNION {[1..n -> Parts] : n \in 1..MaxParts} :
        \A i \in 1..(Len(ps) - 1) : ps[i].region \/ ps[i + 1].region}

RECURSIVE Written(_, _)
\* The parts from the i-th on as they are written in the source.
Written(ps, i) == IF i > Len(ps) THEN <<>> ELSE ps[i].src \o Written(ps, i + 1)

RECURSIVE Rendered(_, _)
\* The renderings of the parts from the i-th on, concatenated.
Rendered(ps, i) == IF i > Len(ps) THEN "" ELSE ps[i].text \o Rendered(ps, i + 1)

\* print "..."
InterpSource(ps) ==
    <<"p", "r", "i", "n", "t", " ", "\"">> \o Written(ps, 1) \o <<"\"">>

NextInterp ==
    \/ \E ps \in PartSeqs : Run(InterpSource(ps), 0)
    \/ Finish

SpecInterp == Init /\ [][NextInterp]_vars

(***************************************************************************)
(* Interpolated strings: C16 (under SpecInterp).                           *)
(***************************************************************************)
\* The expression of the print statement that source consists of.
PrintedNode(source) ==
    parser_parse(parser_init(lexer_tokenize(lexer_init(source)).tokens, 0), <<>>).node[1].expr

\* C16: the node of an interpolated string has one part per literal run and
\* one per ${...} region, in source order, and printing the string prints
\* the renderings of its parts concatenated in that order, whatever token a
\* region begins with and also when two regions touch.
C16_PartsInOrder ==
    \A ps \in PartSeqs :
       (last.stmt.form = "source" /\ last.stmt.text = InterpSource(ps))
         => /\ status = "run"
            /\ out = <<Rendered(ps, 1)>>
            /\ Len(ps) > 1 =>
                 /\ PrintedNode(InterpSource(ps)).type = "NODE_STRING_INTERP"
                 /\ Len(PrintedNode(InterpSource(ps)).parts) = Len(ps)

(***************************************************************************)
(* Programs whose last token is a string literal, closed or left open.     *)
(***************************************************************************)
MaxChars == 2

\* The characters of the literals up to MaxChars long.
Bodies == UNION {[1..n -> {"a", "b", " "}] : n \in 0..MaxChars}

\* The statement opening ("print " or "let s = ") and the literal, with its
\* closing quote or without.
StringSource(opening, body, closed) ==
    opening \o <<"\"">> \o body \o (IF closed THEN <<"\"">> ELSE <<>>)

Openings == {<<"p", "r", "i", "n", "t", " ">>, <<"l", "e", "t", " ", "s", " ", "=", " ">>}

NextString ==
    \/ \E o \in Openings, b \in Bodies, closed \in BOOLEAN : Run(StringSource(o, b, closed), 0)
    \/ Finish

SpecString == Init /\ [][NextString]_vars

(***************************************************************************)
(* Unterminated strings: C17 (under SpecString).                           *)
(***************************************************************************)
\* C17: a source whose string literal lacks its closing quote ends the
\* process with a non-zero status and a message on the error stream;
\* nothing of it is parsed or run (nothing is printed, no variable defined).
C17_UnterminatedIsFatal ==
    \A o \in Openings, b \in Bodies :
       (last.stmt.form = "source" /\ last.stmt.text = StringSource(o, b, FALSE))
         => /\ status = "exit"
            /\ exit_code # 0
            /\ err_stream # <<>>
            /\ out = <<>>

(***************************************************************************)
(* Programs that print a chain of an equality and an ordered comparison.   *)
(***************************************************************************)
CmpOperands == {<<"1">>, <<"2">>, <<"t", "r", "u", "e">>}

EqOps == {<<"=", "=">>, <<"!", "=">>}

RelOps == {<<"<">>, <<">", "=">>}

\* print x op1 y op2 z
ChainSource(x, op1, y, op2, z) == PrintSource(x, op1, y) \o <<" ">> \o op2 \o <<" ">> \o z

\* (x op y)
Paren(x, op, y) == <<"(">> \o x \o <<" ">> \o op \o <<" ">> \o y \o <<")">>

NextCmp ==
    \/ \E x, y, z \in CmpOperands, eq \in EqOps, rel \in RelOps :
          Run(ChainSource(x, eq, y, rel, z), 0) \/ Run(ChainSource(x, rel, y, eq, z), 0)
    \/ Finish

SpecCmp == Init /\ [][NextCmp]_vars

(***************************************************************************)
(* Equality below ordered comparison: C18 (under SpecCmp).                 *)
(***************************************************************************)
\* C18: == and != bind less tightly than <, <=, >, >=: the program
\* print x == y < z that has just run parsed as print x == (y < z), and
\* print x < y == z as print (x < y) == z.
C18_EqualityBindsLooser ==
    \A x, y, z \in CmpOperands, eq \in EqOps, rel \in RelOps :
       last.stmt.form = "source"
         => /\ last.stmt.text = ChainSource(x, eq, y, rel, z)
                 => PrintedNode(last.stmt.text)
                      = PrintedNode(PrintSource(x, eq, Paren(y, rel, z)))
            /\ last.stmt.text = ChainSource(x, rel, y, eq, z)
                 => PrintedNode(last.stmt.text)
                      = PrintedNode(PrintSource(Paren(x, rel, y), eq, z))

(***************************************************************************)
(* Programs that print a unary operator before a postfix chain, over an    *)
(* object o and an array a.                                                *)
(***************************************************************************)
MaxChain == 2

UnaryOps == {<<"n", "o", "t", " ">>, <<"-">>}

\* .f, [0], [1] and .m()
Postfixes == {<<".", "f">>, <<"[", "0", "]">>, <<"[", "1", "]">>, <<".", "m", "(", ")">>}

RECURSIVE Flat(_, _)
\* The postfixes of a chain from the i-th on, one after another.
Flat(chain, i) == IF i > Len(chain) THEN <<>> ELSE chain[i] \o Flat(chain, i + 1)

\* An operand with a chain of one to MaxChain postfixes.
Chains ==
    {x \o Flat(c, 1) : x \in {<<"o">>, <<"a">>},
                       c \in UNION {[1..n -> Postfixes] : n \in 1..MaxChain}}

\* print e
PrintOf(e) == <<"p", "r", "i", "n", "t", " ">> \o e

NextPostfix ==
    \/ /\ heap = <<>>
       /\ Run(LetSource(<<"o">>, <<"{", "f", ":", " ", "f", "a", "l", "s", "e", "}">>)
              \o <<"\n">> \o LetSource(<<"a">>, <<"[", "1", ",", " ", "2", "]">>), 0)
    \/ \E u \in UnaryOps, e \in Chains :
          Run(PrintOf(u \o e), 0) \/ Run(PrintOf(u \o <<"(">> \o e \o <<")">>), 0)
    \/ Finish

SpecPostfix == Init /\ [][NextPostfix]_vars

(***************************************************************************)
(* Unary operators below the postfix chain: C19 (under SpecPostfix).       *)
(***************************************************************************)
\* C19: unary - and not apply to the result of the whole postfix chain
\* that follows them: the program print not o.f that has just run parsed
\* as print not (o.f), and so for -a[0], not o.m() and every other chain.
C19_UnaryBindsLooser ==
    \A u \in UnaryOps, e \in Chains :
       (last.stmt.form = "source" /\ last.stmt.text = PrintOf(u \o e))
         => PrintedNode(last.stmt.text) = PrintedNode(PrintOf(u \o <<"(">> \o e \o <<")">>))

(***************************************************************************)
(* Programs that loop over the keys of an object literal and print each:   *)
(* for k in {a: 1, b: 2} { print k }                                       *)
(***************************************************************************)
MaxKeys == 3

\* The key lists of the literals: up to MaxKeys different letters.
KeySeqs ==
    {ks \in UNION {[1..n -> {"a", "b", "c", "d"}] : n \in 1..MaxKeys} :
        \A i, j \in DOMAIN ks : i # j => ks[i] # ks[j]}

\* for k in {keys[1]: 1, keys[2]: 1, ...}
ForKeys(keys) ==
    [form |-> "for", line |-> 1, var |-> "k",
     iterable |-> [type |-> "NODE_OBJECT", line |-> 1, keys |-> keys,
                   values |-> [i \in DOMAIN keys |-> NumLit(1)]]]

NextKeys ==
    \/ \E keys \in KeySeqs :
          cstack = <<>> /\ Len(heap) < MaxObjects /\ EnterFor(ForKeys(keys))
    \/ TopIs("for") /\ Stmt([form |-> "print", line |-> 1, expr |-> VarRef("k")])
    \/ ExitFor
    \/ Finish

SpecKeys == Init /\ [][NextKeys]_vars

(***************************************************************************)
(* The order of for-in over an object: C20 (under SpecKeys).               *)
(***************************************************************************)
\* C20: a for-in loop over an object visits its keys, as strings, each
\* once and in the order of their declaration: when the loop over
\* {a: 1, b: 2} has been entered, the keys it will visit are a, then b, and
\* the first iteration prints a.
C20_DeclarationOrder ==
    \A keys \in KeySeqs :
       /\ last.stmt = ForKeys(keys)
            => /\ TopIs("for")
               /\ for_items(Top) = [i \in DOMAIN keys |-> val_string(keys[i])]
       /\ (/\ TopIs("for")
           /\ last.stmt.form = "print"
           /\ for_items(Top) = [i \in DOMAIN keys |-> val_string(keys[i])])
            => out = <<keys[Top.i]>>

(***************************************************************************)
(* Programs that store into an object o and an array arr with a key and a  *)
(* value that are calls of s, the function of SpecExpr that prints its tag *)
(* and returns its second argument:   o[s("k", key)] = s("v", val)         *)
(***************************************************************************)
\* c[s("k", key)] = s("v", val)
TaggedStore(c, key, val) ==
    [form |-> "index_assign", line |-> 1, obj |-> VarRef(c),
     index |-> FuncCall(plain_name("s"), <<StrLit("k"), key>>),
     value |-> FuncCall(plain_name("s"), <<StrLit("v"), val>>)]

NextOrder ==
    \/ /\ ~table_has(functions, "s")
       /\ Stmt(Fn("s", <<"t", "v">>,
                   <<[type |-> "NODE_PRINT", line |-> 1, expr |-> VarRef("t")],
                     [type |-> "NODE_RETURN", line |-> 1, expr |-> VarRef("v")]>>,
                   FALSE))
    \/ /\ table_has(functions, "s") /\ heap = <<>>
       /\ Stmt(Let("o", [type |-> "NODE_OBJECT", line |-> 1, keys |-> <<>>, values |-> <<>>]))
    \/ /\ heap # <<>> /\ ~table_has(scopes[1], "arr")
       /\ Stmt(Let("arr", [type |-> "NODE_ARRAY", line |-> 1,
                           elements |-> <<NumLit(1), NumLit(2)>>]))
    \/ \E key \in {StrLit("f"), StrLit("g")}, val \in {NumLit(n) : n \in 1..MaxValue} :
          heap # <<>> /\ Stmt(TaggedStore("o", key, val))
    \/ \E key \in {NumLit(0), NumLit(1)}, val \in {NumLit(n) : n \in 1..MaxValue} :
          table_has(scopes[1], "arr") /\ Stmt(TaggedStore("arr", key, val))
    \/ \E l, r \in {NumLit(n) : n \in 1..MaxValue} :
          /\ table_has(functions, "s")
          /\ Stmt([form |-> "print", line |-> 1, expr |-> Tagged("TOKEN_PLUS", l, r)])
    \/ Finish

SpecOrder == Init /\ [][NextOrder]_vars

(***************************************************************************)
(* Left-to-right evaluation: C21 (under SpecOrder).                        *)
(***************************************************************************)
\* C21: sub-expressions are evaluated left to right in source order: the
\* operands of s("a", l) + s("b", r) print a, then b, and an index
\* assignment c[s("k", key)] = s("v", val) evaluates its key before its
\* value, so it prints k, then v.
C21_LeftToRight ==
    /\ (last.stmt.form = "print" /\ status = "run") => SubSeq(out, 1, 2) = <<"a", "b">>
    /\ (last.stmt.form = "index_assign" /\ status = "run") => out = <<"k", "v">>

(***************************************************************************)
(* Programs that import the files of Files: a file given on the command    *)
(* line, or lines of the read-eval-print loop that import or print.        *)
(***************************************************************************)
\* import "path"
ImportSource(path) == <<"i", "m", "p", "o", "r", "t", " ", "\"", path, "\"">>

\* main(argc, argv) with a file: the file is read and run, and the process
\* ends.
RunFile(path) ==
    /\ Running
    /\ last.stmt.form = "start"
    /\ Done(With(interp_run(Machine, Files[path], 0),
                 LAMBDA m : IF m.status = "run"
                            THEN [m EXCEPT !.status = "exit", !.exit_code = 0]
                            ELSE m),
            [form |-> "file", line |-> 1, path |-> path])

NextImport ==
    \/ \E path \in DOMAIN Files : RunFile(path)
    \/ \E path \in DOMAIN Files \cup {"x"} : Run(ImportSource(path), 0)
    \/ Finish

SpecImport == Init /\ [][NextImport]_vars

(***************************************************************************)
(* Imports run once: C22 (under SpecImport).                               *)
(***************************************************************************)
\* How often a step printed the path of a file, which is how often it ran
\* the file's statements.
Runs(o, path) == Cardinality({i \in DOMAIN o : o[i] = path})

\* C22: the statements of a file run at most once in an interpreter: a
\* step runs no file that is in the imported set already, and it runs no
\* file twice, also when files import each other in a cycle.
C22_ImportedOnce ==
    [][\A path \in DOMAIN Files :
          Runs(out', path)
            + (IF \E i \in DOMAIN imported : imported[i] = path THEN 1 ELSE 0) <= 1]_vars

(***************************************************************************)
(* Programs that serialize a value and parse it back.                      *)
(***************************************************************************)
\* The values written as literals: null, booleans, numbers, strings, arrays.
Literals ==
    {<<"n", "u", "l", "l">>, <<"t", "r", "u", "e">>, <<"f", "a", "l", "s", "e">>,
     <<"0">>, <<"7">>, <<"-", "2">>, <<"2", ".", "5">>,
     <<"\"", "a", "\"">>, <<"\"", "\"">>,
     <<"1">>, <<"1", "0">>, <<"0", ".", "5">>, <<"\"", "a", "b", "\"">>,
     <<"[", "n", "u", "l", "l", "]">>, <<"[", "7", ",", " ", "0", "]">>,
     <<"[", "]">>, <<"[", "1", "]">>, <<"[", "1", ",", " ", "\"", "a", "\"", "]">>}

Parsers == {<<"p", "a", "r", "s", "e">>, <<"j", "s", "o", "n", "P", "a", "r", "s", "e">>}

Stringifiers ==
    {<<"s", "t", "r", "i", "n", "g", "i", "f", "y">>,
     <<"j", "s", "o", "n", "S", "t", "r", "i", "n", "g", "i", "f", "y">>}

\* print parse(stringify(v)) == v
RoundTripSource(parse, stringify, v) ==
    <<"p", "r", "i", "n", "t", " ">> \o parse \o <<"(">> \o stringify \o <<"(">> \o v
    \o <<")", ")", " ", "=", "=", " ">> \o v

\* print stringify(v)
StringifySource(stringify, v) ==
    <<"p", "r", "i", "n", "t", " ">> \o stringify \o <<"(">> \o v \o <<")">>

NextRound ==
    \/ \E parse \in Parsers, stringify \in Stringifiers, v \in Literals :
          Run(RoundTripSource(parse, stringify, v), 0)
    \/ \E stringify \in Stringifiers, v \in Literals : Run(StringifySource(stringify, v), 0)
    \/ Finish

SpecRound == Init /\ [][NextRound]_vars

(***************************************************************************)
(* Serialization round trip: C23 (under SpecRound).                        *)
(***************************************************************************)
\* C23: for every value v that is no function, parse(stringify(v)) is equal
\* to v: the program print parse(stringify(v)) == v that has just run
\* printed true.
C23_RoundTrip ==
    \A parse \in Parsers, stringify \in Stringifiers, v \in Literals :
        (last.stmt.form = "source" /\ last.stmt.text = RoundTripSource(parse, stringify, v))
            => out = <<"true">>

(***************************************************************************)
(* Programs that apply a compound assignment and read the target back.     *)
(***************************************************************************)
\* The places a compound assignment is applied to, each with the statement
\* that sets it up around the old value:  o.f and o["f"] after
\* let o = {f: old},  a[0] after let a = [old],  x after let x = old.
Places ==
    [member |-> [pre |-> <<"l", "e", "t", " ", "o", " ", "=", " ", "{", "f", ":", " ">>, post |-> <<"}">>, place |-> <<"o", ".", "f">>],
     key |-> [pre |-> <<"l", "e", "t", " ", "o", " ", "=", " ", "{", "f", ":", " ">>, post |-> <<"}">>, place |-> <<"o", "[", "\"", "f", "\"", "]">>],
     index |-> [pre |-> <<"l", "e", "t", " ", "a", " ", "=", " ", "[">>, post |-> <<"]">>, place |-> <<"a", "[", "0", "]">>],
     name |-> [pre |-> <<"l", "e", "t", " ", "x", " ", "=", " ">>, post |-> <<>>, place |-> <<"x">>]]

OldValues == {"2", "4", "6", "8"}

Amounts == {"1", "2"}

\* setup; place op= amount; print place, a line each
CompoundSource(t, old, op, amount) ==
    Places[t].pre \o <<old>> \o Places[t].post \o <<"\n">>
    \o Places[t].place \o <<" ", op, "=", " ", amount, "\n">>
    \o <<"p", "r", "i", "n", "t", " ">> \o Places[t].place

NextCompound ==
    \/ \E t \in DOMAIN Places, old \in OldValues, op \in {"+", "-", "*", "/"},
          amount \in Amounts :
          /\ last.stmt.form = "start"
          /\ Run(CompoundSource(t, old, op, amount), 0)
    \/ Finish

SpecCompound == Init /\ [][NextCompound]_vars

\* The number a numeral of one digit names.
DigitValue(c) == CHOOSE n \in 0..9 : FormatLong(n) = c

\* old combined with amount by the operator; the quotients here are exact.
Combined(old, op, amount) ==
    CASE op = "+" -> DigitValue(old) + DigitValue(amount)
      [] op = "-" -> DigitValue(old) - DigitValue(amount)
      [] op = "*" -> DigitValue(old) * DigitValue(amount)
      [] op = "/" -> DigitValue(old) \div DigitValue(amount)

(***************************************************************************)
(* Compound assignment on members and elements: C24 (under SpecCompound).  *)
(***************************************************************************)
\* C24: a compound assignment on a member or index target updates the
\* target: the program that set o.f (or o["f"], or a[0]) to old, applied
\* op= amount to it and printed it has printed old combined with amount.
C24_CompoundOnTarget ==
    \A t \in {"member", "key", "index"}, old \in OldValues, op \in {"+", "-", "*", "/"},
       amount \in Amounts :
        (last.stmt.form = "source" /\ last.stmt.text = CompoundSource(t, old, op, amount))
            => out = <<FormatLong(Combined(old, op, amount))>>

(***************************************************************************)
(* Programs that nest try statements, loops, calls of f(), of the method   *)
(* a.set(1) and of the constructor of C, and that throw, break, continue   *)
(* or return from any of them.                                             *)
(***************************************************************************)
MaxCalls == 2

\* A call may be made: the nesting and the call-depth counter are in bounds.
MayCall == Len(cstack) < MaxStack /\ call_depth < MaxCalls

NextUnwind ==
    \/ cstack = <<>> /\ ~table_has(functions, "f") /\ Stmt(Fn("f", <<>>, <<>>, TRUE))
    \/ cstack = <<>> /\ ~table_has(classes, "C") /\ Stmt(ClassC)
    \/ /\ MayCall
       /\ Len(heap) < MaxObjects
       /\ table_has(classes, "C")
       /\ NewStmt([form |-> "new", line |-> 1, name |-> "a", class_name |-> "C",
                   args |-> <<NumLit(1)>>])
    \/ MayCall /\ table_has(functions, "f") /\ CallStmt(Call(plain_name("f"), <<>>))
    \/ /\ MayCall
       /\ interp_get_var(Machine, "a").found
       /\ CallStmt(Call(method_name("set"), <<VarRef("a"), NumLit(1)>>))
    \/ Len(cstack) < MaxStack /\ EnterTry([form |-> "try", line |-> 1, catch_var |-> "e"])
    \/ /\ Len(cstack) < MaxStack
       /\ EnterFor([form |-> "for", line |-> 1, var |-> "i",
                    iterable |-> [type |-> "NODE_ARRAY", line |-> 1,
                                  elements |-> <<NumLit(1)>>]])
    \/ \E form \in {"break", "continue"} : Stmt([form |-> form, line |-> 1])
    \/ Stmt([form |-> "return", line |-> 1, expr |-> NumLit(1)])
    \/ Stmt([form |-> "throw", line |-> 1, expr |-> StrLit("x")])
    \/ ExitCall
    \/ ExitFor
    \/ ExitTry
    \/ Finish

SpecUnwind == Init /\ [][NextUnwind]_vars

(***************************************************************************)
(* The state a catch body starts in: C25 (under SpecUnwind).               *)
(***************************************************************************)
\* C25: when an exception reaches the checkpoint of a try statement, its
\* catch body starts with the scope stack cut back to the depth at the
\* try's entry plus the catch body's own scope, and with the return, break,
\* continue and exception-active flags clear; and when a try statement
\* completes, the scope depth is what it was before the try.
C25_CatchStartsUnwound ==
    [][/\ (last'.raised /\ status' = "run") =>
            /\ cstack' # <<>>
            /\ cstack'[Len(cstack')].kind = "try"
            /\ cstack'[Len(cstack')].phase = "catch"
            /\ Len(scopes') - 1 = cstack'[Len(cstack')].saved_scope + 1
            /\ ~return_flag' /\ ~break_flag' /\ ~continue_flag' /\ ~exception_active'
       /\ (status' = "run" /\ last'.stmt = [form |-> "end", kind |-> "try"]) =>
            Len(scopes') - 1 = Top.saved_scope]_vars

\* A throw made in the body of a function called in a try block has been
\* caught at top level: the scopes of the call and of the try block are
\* gone, and the catch body's scope, which binds e, is the innermost.
C25_Witness ==
    /\ last.stmt.form = "throw"
    /\ last.raised
    /\ status = "run"
    /\ Len(cstack) = 1
    /\ Top.phase = "catch"
    /\ Top.runs = 1
    /\ call_depth = 1
    /\ Len(scopes) = 2
    /\ table_has(scopes[2], "e")

(***************************************************************************)
(* The call-depth counter: C28 (under SpecUnwind).                         *)
(***************************************************************************)
\* C28: the call-depth counter is always the number of user-function
\* invocations in progress; in particular, once an exception raised inside
\* calls has been caught outside them, the counter is back to what it was
\* when the try was entered.
C28_DepthCountsActiveCalls == status = "run" => call_depth = ActiveCalls

(***************************************************************************)
(* The current instance: C29 (under SpecUnwind).                           *)
(***************************************************************************)
\* C29: the current-instance slot is restored when a method or constructor
\* invocation ends, by a return or by an exception caught outside it: it
\* is null, or it refers to the receiver of a method or constructor call
\* that is still in progress.
C29_ThisOfActiveCall ==
    (status = "run" /\ ~this_obj.null) =>
        /\ this_obj.frame \in 1..Len(cstack)
        /\ cstack[this_obj.frame].kind = "call"
        /\ cstack[this_obj.frame].via \in {"method", "new"}

(***************************************************************************)
(* break and continue across calls: C30 (under SpecUnwind).                *)
(***************************************************************************)
\* C30: break and continue act on the innermost enclosing loop of the same
\* function body only: when a call of a user function has returned, the
\* break and continue flags are clear.
C30_FlagsClearAfterCall ==
    (status = "run" /\ last.stmt = [form |-> "end", kind |-> "call"])
        => (~break_flag /\ ~continue_flag)

(***************************************************************************)
(* Lines of the read-eval-print loop that define the functions h and g,    *)
(* call them, and import the file h.                                       *)
(***************************************************************************)
\* The line is run; outcome is what a read of freed memory does.
RunStale(source, outcome) ==
    /\ Running
    /\ cstack = <<>>
    /\ Done(interp_run([Machine EXCEPT !.stale = outcome], source, 0),
            [form |-> "source", line |-> 1, text |-> source])

\* fn name() { return n }
DefSource(name, n) == <<"f", "n", " ">> \o <<name>> \o <<"(", ")", " ", "{", " ", "r", "e", "t", "u", "r", "n", " ">> \o <<n>> \o <<" ", "}">>

\* print name()
CallSource(name) == <<"p", "r", "i", "n", "t", " ">> \o <<name>> \o <<"(", ")">>

NextAst ==
    \/ \E name \in {"h", "g"}, n \in {"7", "8"}, outcome \in {"intact", "crash"} :
          \/ RunStale(DefSource(name, n), outcome)
          \/ RunStale(DefSource(name, n) \o <<"\n">> \o CallSource(name), outcome)
    \/ \E name \in {"h", "g"}, outcome \in {"intact", "crash"} :
          RunStale(CallSource(name), outcome)
    \/ \E outcome \in {"intact", "crash"} : RunStale(ImportSource("h"), outcome)
    \/ Finish

SpecAst == Init /\ [][NextAst]_vars

(***************************************************************************)
(* Function bodies and the syntax tree that owns them: C26 (under SpecAst).*)
(***************************************************************************)
\* C26: whenever the body of a user function is executed, the syntax tree
\* that owns it has not been freed: a line that calls h or g, defined by
\* an earlier line or by an imported file, finds the function's parameter
\* and body arrays not freed.
C26_BodyOutlivesTree ==
    [][\A name \in {"h", "g"} :
          (/\ last'.stmt.form = "source"
           /\ last'.stmt.text = CallSource(name)
           /\ table_has(functions, name))
              => ~functions[name].freed]_vars

(***************************************************************************)
(* Programs that keep, replace and release strings and objects: a          *)
(* variable s joined by += with the result of a call f(), where f either   *)
(* only returns or sets s first; and an object reached through a second    *)
(* variable or through an array after its first variable is set to null.   *)
(***************************************************************************)
Letters == {"a", "b", "c"}

\* let s = "old"; fn f() { body return "r" }; s += f(); print s, a line each
JoinSource(old, body, r) ==
    <<"l", "e", "t", " ", "s", " ", "=", " ", "\"", old, "\"", "\n">>
    \o <<"f", "n", " ", "f", "(", ")", " ", "{", " ">> \o body
    \o <<"r", "e", "t", "u", "r", "n", " ", "\"", r, "\"", " ", "}", "\n">>
    \o <<"s", " ", "+", "=", " ", "f", "(", ")", "\n">>
    \o <<"p", "r", "i", "n", "t", " ", "s">>

\* s = "new" and a line end, the statement that f runs before it returns.
SetS(new) == <<"s", " ", "=", " ", "\"", new, "\"", "\n">>

\* let o = {f: v}; let b = holder; o = null; print through, a line each
AliasSource(v, holder, through) ==
    <<"l", "e", "t", " ", "o", " ", "=", " ", "{", "f", ":", " ", v, "}", "\n">>
    \o <<"l", "e", "t", " ", "b", " ", "=", " ">> \o holder \o <<"\n">>
    \o <<"o", " ", "=", " ", "n", "u", "l", "l", "\n">>
    \o <<"p", "r", "i", "n", "t", " ">> \o through

NextMem ==
    \/ \E old \in Letters, r \in Letters, outcome \in {"intact", "reused", "crash"} :
          /\ last.stmt.form = "start"
          /\ \/ RunStale(JoinSource(old, <<>>, r), outcome)
             \/ \E new \in Letters : RunStale(JoinSource(old, SetS(new), r), outcome)
    \/ \E v \in {"1", "2"}, outcome \in {"intact", "reused", "crash"} :
          /\ last.stmt.form = "start"
          /\ \/ RunStale(AliasSource(v, <<"o">>, <<"b", ".", "f">>), outcome)
             \/ RunStale(AliasSource(v, <<"[", "o", "]">>, <<"b", "[", "0", "]", ".", "f">>), outcome)
    \/ Finish

SpecMem == Init /\ [][NextMem]_vars

RECURSIVE Refs(_)
\* The heap Tables that value v holds a handle on.
Refs(v) ==
    IF v.type = "object" THEN {v.ref}
    ELSE IF v.type = "array" THEN UNION {Refs(v.items[i]) : i \in DOMAIN v.items}
    ELSE {}

TableRefs(t) == UNION {Refs(t[k]) : k \in DOMAIN t}

\* The Tables that a variable binding, an array element or an entry of a
\* Table not freed refers to.
LiveRefs ==
    UNION {TableRefs(scopes[i]) : i \in DOMAIN scopes}
    \cup TableRefs(globals)
    \cup UNION {TableRefs(heap[x].entries) : x \in {y \in DOMAIN heap : ~heap[y].freed}}

(***************************************************************************)
(* Freed Tables and string buffers: C27 (under SpecMem).                   *)
(***************************************************************************)
\* C27: an object's Table is freed only when its reference counter has
\* reached zero and never while a variable binding, array element or object
\* entry refers to it, and no statement reads a freed Table or a freed
\* string buffer.
C27_NoFreedRead ==
    /\ \A x \in DOMAIN heap : heap[x].freed => heap[x].refcount <= 0
    /\ \A x \in LiveRefs : ~heap[x].freed
    /\ ~last.stale_read

=========================================================================
